---- MODULE Spec2Model ----
(***************************************************************************)
(* A model of the emergence genetic-circuit compiler: the stochastic       *)
(* assignment search of Assembler (api/_utils/assembler.rs) and the        *)
(* steady-state evaluators of the later Gate / Gene / GeneticCircuit       *)
(* revisions.                                                              *)
(*                                                                         *)
(* f64 values are fixed-point integers: the integer v stands for v / Unit. *)
(* NaN and Inf are the two non-finite values the code can produce.         *)
(* Library indices are 0-based as in the code; TLA+ sequences are 1-based, *)
(* so gates_vec[i] of the code is gates_vec[i + 1] here.                   *)
(***************************************************************************)
EXTENDS Integers, Sequences, FiniteSets, TLC

VARIABLES
    gates_vec,       \* Assembler.gates_vec / Data.genes: the gate library
    inputs,          \* Assembler.inputs / Data.signals: name -> Input
    lc,              \* the LogicCircuit handed to the search
    pc,              \* position of the running operation
    layers,          \* search: gate name -> weight matrix
    i,               \* search: loop counter
    best_score,      \* search: recorded best score
    best_ass,        \* search: recorded best assignment
    selected_gates,  \* search: assignment sampled by the last iteration
    score,           \* search: score of the last iteration
    evals,           \* search: the results of the two test calls of the last iteration
    draws,           \* search: number of uniform samples drawn so far
    fallbacks,       \* search: positions of the last walk that took the last-index fallback
    scores,          \* search: the score of every iteration so far, in order
    result,          \* what the operation returned
    rev,             \* evaluator: which of the evaluators of the tree is run
    selected_genes,  \* evaluator: the selected gene indices handed to into_biological
    cache,           \* evaluator: the cache as the evaluation left it
    circuit_score,   \* evaluator: GeneticCircuit.score
    testbench,       \* simulator: time -> (input name -> target boolean)
    simulation,      \* simulator: what simulate returned, the histories first
    mutex,           \* compile: the request holding ASSIGNER's lock, 0 when free
    loaded,          \* compile: Assembler.loaded
    loads,           \* compile: how many times Assembler::load has run
    req,             \* compile: request -> its position, circuit and response
    choose_in,       \* choose_node: the arguments of the call
    choose_out,      \* choose_node: what the call returned
    bls,             \* search: the blacklist each position of the last walk sampled under
    imp,             \* builder: the implementation handed to check_implementation_errors
    build,           \* builder: what check_implementation_errors and build_devices returned
    assigned_gates,  \* assemble: the assignment handed to assemble
    genetic_circuit, \* assemble: the GeneticCircuit assemble returned
    kd,              \* assigner: the KdTree of the library
    min,             \* assigner: the threshold of the running try_walk
    tries,           \* assigner: how many try_walk calls are on the stack
    walked           \* assigner: what the last walk_back returned

vars == <<gates_vec, inputs, lc, pc, layers, i, best_score, best_ass,
          selected_gates, score, evals, draws, fallbacks, scores, result,
          rev, selected_genes, cache, circuit_score,
          testbench, simulation, mutex, loaded, loads, req, choose_in, choose_out,
          bls, imp, build, assigned_gates, genetic_circuit, kd, min, tries, walked>>

searchvars == <<layers, i, best_score, best_ass, selected_gates, score, evals,
                draws, fallbacks, scores, bls>>

evalvars == <<rev, selected_genes, cache, circuit_score>>

simvars == <<testbench, simulation>>

concvars == <<mutex, loaded, loads, req>>

choosevars == <<choose_in, choose_out>>

buildvars == <<imp, build>>

asmvars == <<assigned_gates, genetic_circuit>>

assignvars == <<kd, min, tries, walked>>

---------------------------------------------------------------------------
(* Bounds of the model *)

\* Largest library the model loads.
MaxLib == 2

\* Iteration budget of one search; stands for `let len = 6000`.
MaxIter == 2

\* The uniform samples in [0, 1] a draw can return.
ChSet == {0, 500, 1000}

\* The values gen_matrix's single sample can take.
InitWeightSet == {500, 1000}

---------------------------------------------------------------------------
(* f64 arithmetic in fixed point *)

Unit == 1000

NaN == -1

Inf == 1000000000

EmptyMap == [x \in {} |-> 0]

Max(a, b) == IF a >= b THEN a ELSE b

Min(a, b) == IF a <= b THEN a ELSE b

Abs(a) == IF a < 0 THEN 0 - a ELSE a

RECURSIVE Pow(_, _)
Pow(x, n) == IF n = 0 THEN 1 ELSE x * Pow(x, n - 1)

\* a / b on f64: 0/0 is NaN, x/0 is +inf.
FDiv(a, b) ==
    IF a = NaN \/ b = NaN THEN NaN
    ELSE IF b = 0 THEN (IF a = 0 THEN NaN ELSE Inf)
    ELSE IF a = Inf THEN Inf
    ELSE (a * Unit) \div b

\* a + b on f64.
FAdd(a, b) ==
    IF a = NaN \/ b = NaN THEN NaN
    ELSE IF a = Inf \/ b = Inf THEN Inf
    ELSE a + b

\* a <= b on f64: false when either side is NaN.
FLe(a, b) == a # NaN /\ b # NaN /\ a <= b

\* a > b on f64: false when either side is NaN.
FGt(a, b) == a # NaN /\ b # NaN /\ a > b

\* exp(-x) for x >= 0, to three decimals: 1 / (1 + x + x^2/2), 0 from x = 8.
ExpNeg(x) ==
    IF x >= 8 * Unit THEN 0
    ELSE (Unit * Unit) \div (Unit + x + (x * x) \div (2 * Unit))

---------------------------------------------------------------------------
(* The library (static/gates.json, static/inputs.json) and the circuits *)

\* A gene name is kept as its "_"-separated parts: "P1_PhlF" is <<"P1", "PhlF">>.
GenePool ==
    { [name |-> <<"P1", "PhlF">>, promoter |-> "pPhlF",
       params |-> [ymax |-> 3900, ymin |-> 20, k |-> 130, n |-> 2, decay |-> 1000]],
      [name |-> <<"P2", "PhlF">>, promoter |-> "pPhlF",
       params |-> [ymax |-> 4100, ymin |-> 20, k |-> 230, n |-> 2, decay |-> 500]],
      [name |-> <<"S1", "SrpR">>, promoter |-> "pSrpR",
       params |-> [ymax |-> 1300, ymin |-> 3, k |-> 60, n |-> 2, decay |-> 1000]],
      [name |-> <<"Z1", "Zero">>, promoter |-> "pZero",
       params |-> [ymax |-> 0, ymin |-> 0, k |-> 100, n |-> 1, decay |-> 1000]] }

\* gates.values().cloned().collect(): the genes of the file in any order.
Libraries ==
    { s \in UNION { [1..n -> GenePool] : n \in 1..MaxLib } :
        \A p, q \in DOMAIN s : p # q => s[p].name # s[q].name }

InputCatalog ==
    [a |-> [name |-> "a", promoter |-> "pTac", rpu_off |-> 50, rpu_on |-> 10000],
     b |-> [name |-> "b", promoter |-> "pTet", rpu_off |-> 2, rpu_on |-> 4400]]

NotGate(x) == [inputs |-> <<x>>, kind |-> "NOT"]

NorGate(x, y) == [inputs |-> <<x, y>>, kind |-> "NOR"]

\* The circuits the front end hands over: every gate feeds the output.
Circuits ==
    { [inputs |-> <<"a">>, output |-> "out",
       gates |-> [out |-> NotGate("a")]],
      [inputs |-> <<"a">>, output |-> "out",
       gates |-> [x |-> NotGate("a"), out |-> NotGate("x")]],
      [inputs |-> <<"a", "b">>, output |-> "out",
       gates |-> [out |-> NorGate("a", "b")]],
      [inputs |-> <<"a", "b">>, output |-> "out",
       gates |-> [x |-> NotGate("a"), out |-> NorGate("x", "b")]],
      [inputs |-> <<"a">>, output |-> "out",
       gates |-> [x |-> NotGate("a"), out |-> NorGate("x", "x")]],
      [inputs |-> <<"a">>, output |-> "out",
       gates |-> [x |-> NotGate("a"), y |-> NotGate("x"), out |-> NorGate("x", "y")]] }

---------------------------------------------------------------------------
(* helpers.rs *)

get_group(name) == IF Len(name) < 2 THEN "none" ELSE name[2]

\* ymin + (ymax - ymin) / (1 + (x / k)^n), as one rational rounded down.
transfer(x, params) ==
    LET kn == Pow(params.k, params.n)
        xn == Pow(x, params.n)
    IN params.ymin + ((params.ymax - params.ymin) * kn) \div (kn + xn)

\* lr = exp(-i / len)
lrate(it, len) == ExpNeg((it * Unit) \div len)

\* reward = 1 - exp(-score / 200)
out_error(sc) ==
    IF sc = NaN THEN NaN
    ELSE IF sc = Inf THEN Unit
    ELSE Unit - ExpNeg(sc \div 200)

\* num_inputs rows of num_nodes copies of one sampled value w.
gen_matrix(num_inputs, num_nodes, w) ==
    [r \in 1..num_inputs |-> [c \in 1..num_nodes |-> w]]

---------------------------------------------------------------------------
(* Assembler: the search (api/_utils/assembler.rs) *)

IsBlacklisted(lib, idx, bl) == get_group(lib[idx + 1].name) \in bl

\* The normaliser counts the blacklisted candidates too.
RECURSIVE choose_sum_all(_, _, _, _)
choose_sum_all(lib, weights, bl, j) ==
    IF j > Len(weights) THEN 0
    ELSE FAdd(weights[j], choose_sum_all(lib, weights, bl, j + 1))

\* The first loop of choose_node: the weight of the candidates not blacklisted.
RECURSIVE choose_sum(_, _, _, _)
choose_sum(lib, weights, bl, j) ==
    IF j > Len(weights) THEN 0
    ELSE IF IsBlacklisted(lib, j - 1, bl) THEN choose_sum(lib, weights, bl, j + 1)
    ELSE FAdd(weights[j], choose_sum(lib, weights, bl, j + 1))

\* The fallback is the first index.
fallback_first(weights) == 0

\* weights.len() - 1
fallback_index(weights) == Len(weights) - 1

\* The second loop of choose_node, from position j with accumulated mass acc.
\* Returns <<index, fell back>>.
RECURSIVE choose_loop(_, _, _, _, _, _, _)
choose_loop(lib, ch, weights, bl, sum, j, acc) ==
    IF j > Len(weights) THEN <<fallback_index(weights), TRUE>>
    ELSE IF IsBlacklisted(lib, j - 1, bl)
         THEN choose_loop(lib, ch, weights, bl, sum, j + 1, acc)
    ELSE LET acc2 == FAdd(acc, FDiv(weights[j], sum))
         IN IF FLe(ch, acc2) THEN <<j - 1, FALSE>>
            ELSE choose_loop(lib, ch, weights, bl, sum, j + 1, acc2)

choose_node(lib, ch, weights, bl) ==
    choose_loop(lib, ch, weights, bl, choose_sum(lib, weights, bl, 1), 1, 0)

\* Assembler::init: one matrix per gate reachable from name; ws[g] is the value
\* gen_matrix samples for gate g.
RECURSIVE init(_, _, _, _, _, _)
RECURSIVE init_inputs(_, _, _, _, _, _)
init(name, gates, lay, num_inputs, num_nodes, ws) ==
    IF name \in DOMAIN lay \/ name \notin DOMAIN gates THEN lay
    ELSE init_inputs(gates[name].inputs, 1, gates,
                     lay @@ (name :> gen_matrix(num_inputs, num_nodes, ws[name])),
                     num_nodes, ws)

init_inputs(inps, j, gates, lay, num_nodes, ws) ==
    IF j > Len(inps) THEN lay
    ELSE init_inputs(inps, j + 1, gates,
                     init(inps[j], gates, lay, num_nodes, num_nodes, ws),
                     num_nodes, ws)

\* Assembler::walk. st = [sel, bl, k, fb, seen]: selected_gates, the blacklist, the
\* number of samples drawn, the positions that fell back, the blacklist each
\* choose_node call was handed; chs[k] is the k-th sample.
\* The blacklist is put back to what it was when the branch was entered.
after_branch_restored(before, after) == [after EXCEPT !.bl = before.bl]

\* bl is one &mut HashSet for the whole pass: what a branch inserted stays.
after_branch(before, after) == after

RECURSIVE walk(_, _, _, _, _, _, _, _)
RECURSIVE walk_inputs(_, _, _, _, _, _, _, _, _)
walk(lib, sigs, name, selected, gates, lay, st, chs) ==
    IF name \in DOMAIN sigs \/ name \in DOMAIN st.sel THEN st
    ELSE LET gate == gates[name]
             layer == lay[name]
             ch == chs[st.k + 1]
             got == choose_node(lib, ch, layer[selected + 1], st.bl)
             sel == got[1]
             node == lib[sel + 1]
             st1 == [sel |-> st.sel @@ (name :> sel),
                     bl |-> st.bl \cup {get_group(node.name)},
                     k |-> st.k + 1,
                     fb |-> IF got[2] THEN st.fb \cup {name} ELSE st.fb,
                     seen |-> Append(st.seen, [name |-> name, bl |-> st.bl])]
         IN walk_inputs(lib, sigs, gate.inputs, 1, sel, gates, lay, st1, chs)

walk_inputs(lib, sigs, inps, j, sel, gates, lay, st, chs) ==
    IF j > Len(inps) THEN st
    ELSE walk_inputs(lib, sigs, inps, j + 1, sel, gates, lay,
                     after_branch(st, walk(lib, sigs, inps[j], sel, gates, lay, st, chs)),
                     chs)

\* The memo seeds the accumulators of a gate (a stale entry leaks into the result).
test_start_cached(name, cached) ==
    IF name \in DOMAIN cached THEN cached[name] ELSE <<0, 0>>

\* let (mut off, mut on) = (0.0f64, 0.0f64)
test_start(name, cached) == <<0, 0>>

\* Assembler::test. st = [visited, cached]; returns [off, on, visited, cached].
RECURSIVE Assembler_test(_, _, _, _, _, _)
RECURSIVE Assembler_test_inputs(_, _, _, _, _, _, _, _, _)
Assembler_test(lib, sigs, name, gates, sel, st) ==
    IF name \in st.visited
    THEN LET cach == IF name \in DOMAIN st.cached THEN st.cached[name] ELSE <<0, 0>>
         IN [off |-> cach[1], on |-> cach[2], visited |-> st.visited, cached |-> st.cached]
    ELSE IF name \in DOMAIN sigs
    THEN [off |-> sigs[name].rpu_off, on |-> sigs[name].rpu_on,
          visited |-> st.visited, cached |-> st.cached]
    ELSE LET st1 == [visited |-> st.visited \cup {name}, cached |-> st.cached]
             r == Assembler_test_inputs(lib, sigs, gates[name].inputs, 1, gates, sel,
                                        st1, test_start(name, st.cached)[1],
                                        test_start(name, st.cached)[2])
             new_off == transfer(r.on, lib[sel[name] + 1].params)
             new_on == transfer(r.off, lib[sel[name] + 1].params)
         IN [off |-> new_off, on |-> new_on, visited |-> r.visited,
             cached |-> [n \in DOMAIN r.cached \cup {name} |->
                            IF n = name THEN <<new_off, new_on>> ELSE r.cached[n]]]

Assembler_test_inputs(lib, sigs, inps, j, gates, sel, st, off, on) ==
    IF j > Len(inps)
    THEN [off |-> off, on |-> on, visited |-> st.visited, cached |-> st.cached]
    ELSE LET c == Assembler_test(lib, sigs, inps[j], gates, sel, st)
         IN Assembler_test_inputs(lib, sigs, inps, j + 1, gates, sel,
                                  [visited |-> c.visited, cached |-> c.cached],
                                  Max(c.off, off), Max(c.on, on))

RECURSIVE SeqSum(_, _)
SeqSum(s, j) == IF j > Len(s) THEN 0 ELSE FAdd(s[j], SeqSum(s, j + 1))

\* The row update of update_weights: pull weights[id] toward pr, then normalise.
update_row(weights, id, lr, pr) ==
    LET old == weights[id + 1]
        target == IF pr = NaN \/ old = NaN THEN NaN ELSE pr - old
        new == IF target = NaN THEN NaN ELSE old + (lr * target) \div Unit
        w1 == [weights EXCEPT ![id + 1] = new]
        sum == SeqSum(w1, 1)
    IN [c \in 1..Len(w1) |-> FDiv(w1[c], sum)]

\* Assembler::update_weights. st = [layers, visited].
RECURSIVE update_weights(_, _, _, _, _, _, _, _)
RECURSIVE update_weights_inputs(_, _, _, _, _, _, _, _, _)
update_weights(sigs, lr, pr, name, prev, sel, gates, st) ==
    IF name \in st.visited THEN st
    ELSE IF name \in DOMAIN sigs THEN st
    ELSE LET id == sel[name]
             layer == st.layers[name]
             layer1 == [layer EXCEPT ![prev + 1] = update_row(layer[prev + 1], id, lr, pr)]
             st1 == [layers |-> [st.layers EXCEPT ![name] = layer1],
                     visited |-> st.visited \cup {name}]
         IN update_weights_inputs(sigs, lr, pr, gates[name].inputs, 1, id, sel, gates, st1)

update_weights_inputs(sigs, lr, pr, inps, j, id, sel, gates, st) ==
    IF j > Len(inps) THEN st
    ELSE update_weights_inputs(sigs, lr, pr, inps, j + 1, id, sel, gates,
                               update_weights(sigs, lr, pr, inps[j], id, sel, gates, st))

\* The check turned inclusive: a circuit that exactly fills the library is refused.
capacity_exceeded_inclusive(circ, lib) == Cardinality(DOMAIN circ.gates) >= Len(lib)

\* lc.gates.len() > self.gates_vec.len()
capacity_exceeded(circ, lib) == Cardinality(DOMAIN circ.gates) > Len(lib)

\* The incumbent is replaced by every score that differs from it.
beats_any(sc, best) == sc # best

\* The comparison written as !(score <= best_score): a NaN score replaces too.
beats_not_le(sc, best) == ~FLe(sc, best)

\* The comparison written as score >= best_score: a tie replaces the incumbent.
beats_ties(sc, best) == FGt(sc, best) \/ (sc # NaN /\ sc = best)

\* score > best_score
beats(sc, best) == FGt(sc, best)

\* The loop leaves one pass early.
in_loop_short(it, len) == it < len - 1

\* for i in 0..len
in_loop(it, len) == it < len

\* Ok((best_ass, best_score))
search_ok(ass, sc) == [ok |-> TRUE, assignment |-> ass, score |-> sc]

\* Err(assign_err("Number of gates exceeds maximum", (0, 0)))
search_err == [ok |-> FALSE, kind |-> "AssignError"]

NoResult == [ok |-> FALSE, kind |-> "none"]

\* Option<f64>
None == [some |-> FALSE, value |-> 0]

Some(x) == [some |-> TRUE, value |-> x]

\* The Layers of the previous search are handed to init.
new_layers_kept(lay) == lay

\* let mut layers = HashMap::new()
new_layers(lay) == EmptyMap

\* search, up to the loop: the capacity check, then init, the incumbent at 0.
SearchStart ==
    /\ pc = "start"
    /\ IF capacity_exceeded(lc, gates_vec)
       THEN /\ pc' = "error"
            /\ result' = search_err
            /\ UNCHANGED <<layers, i, best_score, best_ass>>
       ELSE /\ \E ws \in [DOMAIN lc.gates -> InitWeightSet] :
                  layers' = init(lc.output, lc.gates, new_layers(layers), 1,
                                 Len(gates_vec), ws)
            /\ i' = 0
            /\ best_score' = 0
            /\ best_ass' = EmptyMap
            /\ pc' = "loop"
            /\ UNCHANGED result
    /\ UNCHANGED <<gates_vec, inputs, lc, selected_gates, score, evals, draws,
                   fallbacks, scores, bls>>
    /\ UNCHANGED <<evalvars, simvars, concvars, choosevars, buildvars, asmvars, assignvars>>

\* The blacklist of a pass starts empty.
new_blacklist_empty(circ) == {}

\* let mut bl = lc.inputs.iter().map(|arg| arg.name.to_owned()).collect()
new_blacklist(circ) == {circ.inputs[j] : j \in DOMAIN circ.inputs}

\* One pass of the loop body: walk, test twice, compare, update_weights.
SearchIterate ==
    /\ pc = "loop"
    /\ in_loop(i, MaxIter)
    /\ \E chs \in [1..Cardinality(DOMAIN lc.gates) -> ChSet] :
       \E w \in {walk(gates_vec, inputs, lc.output, 0, lc.gates, layers,
                      [sel |-> EmptyMap, bl |-> new_blacklist(lc),
                       k |-> 0, fb |-> {}, seen |-> <<>>], chs)} :
       \E t1 \in {Assembler_test(gates_vec, inputs, lc.output, lc.gates, w.sel,
                                  [visited |-> {}, cached |-> EmptyMap])} :
       \E t2 \in {Assembler_test(gates_vec, inputs, lc.output, lc.gates, w.sel,
                                  [visited |-> {}, cached |-> t1.cached])} :
       \E sc \in {FDiv(t2.on, t2.off)} :
       \E up \in {update_weights(inputs, lrate(i, MaxIter), out_error(sc), lc.output, 0,
                                  w.sel, lc.gates, [layers |-> layers, visited |-> {}])} :
            /\ selected_gates' = w.sel
            /\ fallbacks' = w.fb
            /\ bls' = w.seen
            /\ draws' = draws + w.k
            /\ evals' = << <<t1.off, t1.on>>, <<t2.off, t2.on>> >>
            /\ score' = sc
            /\ scores' = Append(scores, sc)
            /\ best_score' = IF beats(sc, best_score) THEN sc ELSE best_score
            /\ best_ass' = IF beats(sc, best_score) THEN w.sel ELSE best_ass
            /\ layers' = up.layers
    /\ i' = i + 1
    /\ UNCHANGED <<gates_vec, inputs, lc, pc, result>>
    /\ UNCHANGED <<evalvars, simvars, concvars, choosevars, buildvars, asmvars, assignvars>>

\* The loop is over: Ok((best_ass, best_score)).
SearchReturn ==
    /\ pc = "loop"
    /\ ~in_loop(i, MaxIter)
    /\ result' = search_ok(best_ass, best_score)
    /\ pc' = "done"
    /\ UNCHANGED <<gates_vec, inputs, lc, layers, i, best_score, best_ass,
                   selected_gates, score, evals, draws, fallbacks, scores, bls>>
    /\ UNCHANGED <<evalvars, simvars, concvars, choosevars, buildvars, asmvars, assignvars>>

Init ==
    /\ gates_vec \in Libraries
    /\ inputs = InputCatalog
    /\ lc \in Circuits
    /\ pc = "start"
    /\ layers = EmptyMap
    /\ i = 0
    /\ best_score = 0
    /\ best_ass = EmptyMap
    /\ selected_gates = EmptyMap
    /\ score = 0
    /\ evals = <<>>
    /\ draws = 0
    /\ fallbacks = {}
    /\ scores = <<>>
    /\ bls = <<>>
    /\ imp = None
    /\ build = None
    /\ assigned_gates = EmptyMap
    /\ genetic_circuit = None
    /\ kd = EmptyMap
    /\ min = 0
    /\ tries = 0
    /\ walked = None
    /\ result = NoResult
    /\ rev = "none"
    /\ selected_genes = <<>>
    /\ cache = EmptyMap
    /\ circuit_score = None
    /\ testbench = EmptyMap
    /\ simulation = None
    /\ mutex = 0
    /\ loaded = TRUE
    /\ loads = 1
    /\ req = <<>>
    /\ choose_in = None
    /\ choose_out = None

Next == SearchStart \/ SearchIterate \/ SearchReturn

Spec == Init /\ [][Next]_vars

---------------------------------------------------------------------------
(* The steady-state evaluators: devices/gate.rs, components/gene.rs and
   genetic_circuit/ *)

\* The (rpu_off, rpu_on) pairs an input signal is given.
RpuSet ==
    { [rpu_off |-> 50, rpu_on |-> 10000],
      [rpu_off |-> 2, rpu_on |-> 4400],
      [rpu_off |-> 50, rpu_on |-> 4400] }

InputCatalogs ==
    { [a |-> [InputCatalog.a EXCEPT !.rpu_off = ra.rpu_off, !.rpu_on = ra.rpu_on],
       b |-> [InputCatalog.b EXCEPT !.rpu_off = rb.rpu_off, !.rpu_on = rb.rpu_on]] :
        ra \in RpuSet, rb \in RpuSet }

\* HashMap::insert
insert(map, key, val) ==
    [x \in (DOMAIN map) \cup {key} |-> IF x = key THEN val ELSE map[x]]

\* a * b on f64, b taken in whole and fractional parts to stay in 32 bits
FMul(a, b) ==
    IF a = NaN \/ b = NaN THEN NaN
    ELSE IF a = Inf \/ b = Inf THEN (IF a = 0 \/ b = 0 THEN NaN ELSE Inf)
    ELSE a * (b \div Unit) + (a * (b % Unit)) \div Unit

IsInput(circ, n) == \E j \in DOMAIN circ.inputs : circ.inputs[j] = n

\* LogicCircuit.devices: the gates, every one after the nodes it reads.
devices(circ) ==
    CHOOSE s \in [1..Cardinality(DOMAIN circ.gates) -> DOMAIN circ.gates] :
        /\ \A p, q \in DOMAIN s : p # q => s[p] # s[q]
        /\ \A p \in DOMAIN s : \A j \in DOMAIN circ.gates[s[p]].inputs :
              \/ IsInput(circ, circ.gates[s[p]].inputs[j])
              \/ \E q \in 1..(p - 1) : s[q] = circ.gates[s[p]].inputs[j]

\* selected_genes.iter().rev().enumerate(): device p takes the p-th index from the end.
selected_at(sel, p) == sel[Len(sel) + 1 - p]

\* The gene index into_biological gives the device of a node.
selected_of(circ, sel, n) ==
    selected_at(sel, CHOOSE p \in 1..Len(sel) : devices(circ)[p] = n)

\* Gene::transfer
Gene_transfer(params, x) ==
    LET kn == Pow(params.k, params.n)
        xn == Pow(x, params.n)
    IN params.ymin + ((params.ymax - params.ymin) * kn) \div (kn + xn)

\* Gene::steady_state: <<steady_off, steady_on>>
steady_state(params, on, off) ==
    <<FDiv(Gene_transfer(params, on), params.decay),
      FDiv(Gene_transfer(params, off), params.decay)>>

\* devices/gate.rs Gate::test_steady_state: the cache is keyed by node names.
Gate_test_steady_state(gate, output, idx, lib, cached) ==
    LET cur == IF gate.kind = "NOT"
               THEN cached[gate.inputs[1]]
               ELSE LET c0 == cached[gate.inputs[1]]
                        c1 == cached[gate.inputs[2]]
                    IN <<c0[1] + c1[1], Min(c0[2], c1[2]),
                         Abs(c0[2] - c1[2]) + Abs(c0[1] - c1[1]) + c0[3] + c1[3]>>
        ss == steady_state(lib[idx + 1].params, cur[2], cur[1])
    IN insert(cached, output, <<ss[1], ss[2], cur[3]>>)

\* The input nodes of the evaluator of devices/gate.rs: (rpu_off, rpu_on, 0).
seed_gates(circ, sigs) ==
    [n \in {circ.inputs[j] : j \in DOMAIN circ.inputs} |->
        <<sigs[n].rpu_off, sigs[n].rpu_on, 0>>]

\* The devices in order, each through Gate::test_steady_state.
RECURSIVE test_gates(_, _, _, _, _)
test_gates(circ, lib, sel, p, cached) ==
    IF p > Len(sel) THEN cached
    ELSE test_gates(circ, lib, sel, p + 1,
                    Gate_test_steady_state(circ.gates[devices(circ)[p]], devices(circ)[p],
                                           selected_at(sel, p), lib, cached))

\* components/gene.rs: the key of a node in the cache of GeneticCircuit::test,
\* inp.name for an input and data.name for a gene, both as "_"-separated parts.
name_key(circ, lib, sel, n) ==
    IF IsInput(circ, n) THEN <<n>> ELSE lib[selected_of(circ, sel, n) + 1].name

\* logic_circuit.rs LogicCircuit::into_biological: one Gene per device.
components_into_biological(circ, lib, sel) ==
    [p \in 1..Len(sel) |->
        [data |-> lib[selected_at(sel, p) + 1],
         inputs |-> [j \in DOMAIN circ.gates[devices(circ)[p]].inputs |->
                        name_key(circ, lib, sel, circ.gates[devices(circ)[p]].inputs[j])]]]

\* components/gene.rs Gene::test_steady_state.  With one input the branch taken
\* reads self.inputs[1], which is out of bounds: the call panics.
components_Gene_test_steady_state(gene, st) ==
    IF st.panic THEN st
    ELSE IF Len(gene.inputs) = 1
    THEN [st EXCEPT !.panic = TRUE]
    ELSE LET cur == st.cached[gene.inputs[1]]
             ss == steady_state(gene.data.params, cur[2], cur[1])
         IN [st EXCEPT !.cached = insert(st.cached, gene.data.name,
                                          <<ss[1], ss[2], cur[3], cur[4]>>)]

RECURSIVE components_test_loop(_, _, _)
components_test_loop(comps, p, st) ==
    IF p > Len(comps) THEN st
    ELSE components_test_loop(comps, p + 1, components_Gene_test_steady_state(comps[p], st))

\* genetic_circuit.rs GeneticCircuit::test: the cache it leaves, or a panic.
components_GeneticCircuit_test(circ, lib, sel, sigs) ==
    components_test_loop(
        components_into_biological(circ, lib, sel), 1,
        [panic |-> FALSE,
         cached |-> [k \in {<<circ.inputs[j]>> : j \in DOMAIN circ.inputs} |->
                        <<sigs[k[1]].rpu_off, sigs[k[1]].rpu_on, 0,
                          FDiv(sigs[k[1]].rpu_on, sigs[k[1]].rpu_off)>>]])

\* genetic_circuit/: the promoter a node is known by after into_biological.
promoter_of(circ, lib, sel, sigs, n) ==
    IF IsInput(circ, n) THEN sigs[n].promoter
    ELSE lib[selected_of(circ, sel, n) + 1].promoter

\* logic_circuit/mod.rs LogicCircuit::into_biological
into_biological(circ, lib, sel, sigs) ==
    [inputs |-> [j \in DOMAIN circ.inputs |-> sigs[circ.inputs[j]]],
     outputs |-> <<[input |-> promoter_of(circ, lib, sel, sigs, circ.output)]>>,
     components |->
        [p \in 1..Len(sel) |->
            [data |-> lib[selected_at(sel, p) + 1],
             inputs |-> [j \in DOMAIN circ.gates[devices(circ)[p]].inputs |->
                            promoter_of(circ, lib, sel, sigs,
                                        circ.gates[devices(circ)[p]].inputs[j])]]]]

next_diff_signed(c0, c1) == (c0[2] - c1[2]) + (c0[1] - c1[1]) + c0[3] + c1[3]

\* (con0 - con1).abs() + (coff0 - coff1).abs() + diff0 + diff1
next_diff(c0, c1) == Abs(c0[2] - c1[2]) + Abs(c0[1] - c1[1]) + c0[3] + c1[3]

\* genetic_circuit/gene.rs Gene::test_steady_state: the cache is keyed by promoters.
Gene_test_steady_state(gene, cached) ==
    LET curr_std == IF Len(gene.inputs) = 2
                    THEN LET c0 == cached[gene.inputs[1]]
                             c1 == cached[gene.inputs[2]]
                         IN <<c0[1] + c1[1], Min(c0[2], c1[2]), next_diff(c0, c1),
                              FDiv(c0[2] + c1[2], c0[1] + c1[1])>>
                    ELSE cached[gene.inputs[1]]
        ss == steady_state(gene.data.params, curr_std[2], curr_std[1])
    IN insert(cached, gene.data.promoter, <<ss[1], ss[2], curr_std[3], curr_std[4]>>)

RECURSIVE test_loop(_, _, _)
test_loop(comps, p, cached) ==
    IF p > Len(comps) THEN cached
    ELSE test_loop(comps, p + 1, Gene_test_steady_state(comps[p], cached))

\* (-x / 10.0).exp()
inv_diff_error(x) == ExpNeg(x \div 10)

\* genetic_circuit/mod.rs GeneticCircuit::test: the cache it leaves and diff_score.
GeneticCircuit_test(gc) ==
    LET seeded == [k \in {gc.inputs[j].promoter : j \in DOMAIN gc.inputs} |->
                      LET inp == gc.inputs[CHOOSE j \in DOMAIN gc.inputs :
                                               gc.inputs[j].promoter = k]
                      IN <<inp.rpu_off, inp.rpu_on, 0, FDiv(inp.rpu_on, inp.rpu_off)>>]
        final == test_loop(gc.components, 1, seeded)
        out == final[gc.outputs[1].input]
    IN [cached |-> final, diff_score |-> FMul(inv_diff_error(out[3]), out[4])]

\* The evaluator of devices/gate.rs over a whole circuit.
TestGates ==
    /\ pc = "eval"
    /\ rev = "devices"
    /\ cache' = test_gates(lc, gates_vec, selected_genes, 1, seed_gates(lc, inputs))
    /\ pc' = "evaluated"
    /\ UNCHANGED <<gates_vec, inputs, lc, result, rev, selected_genes, circuit_score>>
    /\ UNCHANGED <<searchvars, simvars, concvars, choosevars, buildvars, asmvars, assignvars>>

\* genetic_circuit.rs GeneticCircuit::test on what logic_circuit.rs builds.
ComponentsTest ==
    /\ pc = "eval"
    /\ rev = "components"
    /\ \E r \in {components_GeneticCircuit_test(lc, gates_vec, selected_genes, inputs)} :
          IF r.panic
          THEN pc' = "panic" /\ UNCHANGED cache
          ELSE pc' = "evaluated" /\ cache' = r.cached
    /\ UNCHANGED <<gates_vec, inputs, lc, result, rev, selected_genes, circuit_score>>
    /\ UNCHANGED <<searchvars, simvars, concvars, choosevars, buildvars, asmvars, assignvars>>

\* genetic_circuit/mod.rs GeneticCircuit::test on what into_biological builds.
GeneticCircuitTest ==
    /\ pc = "eval"
    /\ rev = "genetic_circuit"
    /\ \E r \in {GeneticCircuit_test(into_biological(lc, gates_vec, selected_genes, inputs))} :
          /\ cache' = r.cached
          /\ circuit_score' = Some(r.diff_score)
    /\ pc' = "evaluated"
    /\ UNCHANGED <<gates_vec, inputs, lc, result, rev, selected_genes>>
    /\ UNCHANGED <<searchvars, simvars, concvars, choosevars, buildvars, asmvars, assignvars>>

\* Assembler::test without its memo (lines 633-636, 642, 653 left out): the
\* plain recursion over the circuit, <<off, on>>.
RECURSIVE Assembler_test_plain(_, _, _, _, _)
Assembler_test_plain(lib, sigs, name, gates, sel) ==
    IF name \in DOMAIN sigs THEN <<sigs[name].rpu_off, sigs[name].rpu_on>>
    ELSE LET c == [j \in DOMAIN gates[name].inputs |->
                      Assembler_test_plain(lib, sigs, gates[name].inputs[j], gates, sel)]
             off == IF Len(c) = 2 THEN Max(c[2][1], Max(c[1][1], 0)) ELSE Max(c[1][1], 0)
             on == IF Len(c) = 2 THEN Max(c[2][2], Max(c[1][2], 0)) ELSE Max(c[1][2], 0)
         IN <<transfer(on, lib[sel[name] + 1].params),
              transfer(off, lib[sel[name] + 1].params)>>

\* Gene::test_steady_state of each node on the tuples of its own children, with
\* no cache in between: the plain recursion, <<off, on, diff>>.
RECURSIVE Gene_test_plain(_, _, _, _, _)
Gene_test_plain(circ, lib, sel, sigs, name) ==
    IF IsInput(circ, name) THEN <<sigs[name].rpu_off, sigs[name].rpu_on, 0>>
    ELSE LET c == [j \in DOMAIN circ.gates[name].inputs |->
                      Gene_test_plain(circ, lib, sel, sigs, circ.gates[name].inputs[j])]
             curr_std == IF Len(c) = 2
                         THEN <<c[1][1] + c[2][1], Min(c[1][2], c[2][2]), next_diff(c[1], c[2])>>
                         ELSE c[1]
             ss == steady_state(lib[selected_of(circ, sel, name) + 1].params,
                                curr_std[2], curr_std[1])
         IN <<ss[1], ss[2], curr_std[3]>>

\* selected_gates of the search for the indices of selected_genes.
selected_names(circ, sel) == [n \in DOMAIN circ.gates |-> selected_of(circ, sel, n)]

\* Assembler::test from the output node, as the search loop calls it.
AssemblerTest ==
    /\ pc = "eval"
    /\ rev = "assembler"
    /\ cache' = Assembler_test(gates_vec, inputs, lc.output, lc.gates,
                               selected_names(lc, selected_genes),
                               [visited |-> {}, cached |-> EmptyMap]).cached
    /\ pc' = "evaluated"
    /\ UNCHANGED <<gates_vec, inputs, lc, result, rev, selected_genes, circuit_score>>
    /\ UNCHANGED <<searchvars, simvars, concvars, choosevars, buildvars, asmvars, assignvars>>

\* The circuits that are evaluated: two NOT gates into one NOR besides.
EvalCircuits ==
    Circuits \cup
    { [inputs |-> <<"a", "b">>, output |-> "out",
       gates |-> [x |-> NotGate("a"), y |-> NotGate("b"), out |-> NorGate("x", "y")]] }

\* The libraries that are evaluated: one of three genes besides.
EvalLibraries ==
    Libraries \cup
    { s \in [1..3 -> GenePool] :
        /\ s[1].name = <<"S1", "SrpR">>
        /\ s[2].name = <<"P1", "PhlF">>
        /\ s[3].name = <<"P2", "PhlF">> }

InitEval ==
    /\ gates_vec \in EvalLibraries
    /\ inputs \in InputCatalogs
    /\ lc \in EvalCircuits
    /\ selected_genes \in [1..Cardinality(DOMAIN lc.gates) -> 0..(Len(gates_vec) - 1)]
    /\ rev \in {"devices", "components", "genetic_circuit", "assembler"}
    /\ pc = "eval"
    /\ cache = EmptyMap
    /\ circuit_score = None
    /\ testbench = EmptyMap
    /\ simulation = None
    /\ mutex = 0
    /\ loaded = TRUE
    /\ loads = 1
    /\ req = <<>>
    /\ choose_in = None
    /\ choose_out = None
    /\ layers = EmptyMap
    /\ i = 0
    /\ best_score = 0
    /\ best_ass = EmptyMap
    /\ selected_gates = EmptyMap
    /\ score = 0
    /\ evals = <<>>
    /\ draws = 0
    /\ fallbacks = {}
    /\ scores = <<>>
    /\ bls = <<>>
    /\ imp = None
    /\ build = None
    /\ assigned_gates = EmptyMap
    /\ genetic_circuit = None
    /\ kd = EmptyMap
    /\ min = 0
    /\ tries = 0
    /\ walked = None
    /\ result = NoResult

NextEval == TestGates \/ ComponentsTest \/ GeneticCircuitTest \/ AssemblerTest

SpecEval == InitEval /\ [][NextEval]_vars

---------------------------------------------------------------------------
(* The dynamics simulators: genetic_circuit/mod.rs, simulator.rs and
   Assembler::simulate *)

\* for i in 0..1000
SimSteps == 1000

\* The testbenches build_testbench hands over: time -> (input name -> value).
Testbenches ==
    { (0 :> [a |-> FALSE]) @@ (500 :> [a |-> TRUE]),
      (500 :> [a |-> TRUE]),
      (0 :> [a |-> TRUE, b |-> FALSE]) @@ (300 :> [a |-> FALSE]) @@ (700 :> [b |-> TRUE]),
      EmptyMap }

\* The libraries the simulated circuits are assigned from.
SimLibraries ==
    { <<g>> : g \in GenePool } \cup
    { s \in [1..2 -> GenePool] : s[1].name = <<"P1", "PhlF">> /\ s[2].name = <<"P2", "PhlF">> }
    \cup
    { s \in [1..2 -> GenePool] : s[1].name = <<"P2", "PhlF">> /\ s[2].name = <<"S1", "SrpR">> }

\* The circuits that are simulated: the ones whose NOR gates read inputs only.
SimCircuits ==
    { c \in Circuits :
        \A g \in DOMAIN c.gates :
            c.gates[g].kind = "NOR" =>
                \A j \in DOMAIN c.gates[g].inputs : IsInput(c, c.gates[g].inputs[j]) }

\* The breakpoint of one time: every named input's state becomes rpu_on or rpu_off.
apply_breakpoint(states, bp, sigs) ==
    [p \in (DOMAIN states) \cup {sigs[n].promoter : n \in DOMAIN bp} |->
        IF \E n \in DOMAIN bp : sigs[n].promoter = p
        THEN LET n == CHOOSE n \in DOMAIN bp : sigs[n].promoter = p
             IN IF bp[n] THEN sigs[n].rpu_on ELSE sigs[n].rpu_off
        ELSE states[p]]

\* hist.push(*state) for every input of the circuit
RECURSIVE push_inputs(_, _, _, _)
push_inputs(ins, j, states, hist) ==
    IF j > Len(ins) THEN hist
    ELSE push_inputs(ins, j + 1, states,
                     [hist EXCEPT ![ins[j].promoter] = Append(@, states[ins[j].promoter])])

\* self.inputs.iter().map(|pro| states.get(pro).unwrap()).sum()
RECURSIVE input_sum(_, _, _)
input_sum(ins, j, states) ==
    IF j > Len(ins) THEN 0 ELSE states[ins[j]] + input_sum(ins, j + 1, states)

\* Gene::model: transfer(sum) - decay * state
Gene_model(params, sum, state) ==
    Gene_transfer(params, sum) - (params.decay * state) \div Unit

\* Gene::model_and_save on st = [states, history]
model_and_save(gene, st) ==
    LET new_state == st.states[gene.data.promoter]
                       + Gene_model(gene.data.params, input_sum(gene.inputs, 1, st.states),
                                    st.states[gene.data.promoter])
    IN [states |-> [st.states EXCEPT ![gene.data.promoter] = new_state],
        history |-> [st.history EXCEPT ![gene.data.promoter] = Append(@, new_state)]]

RECURSIVE model_and_save_all(_, _, _)
model_and_save_all(comps, j, st) ==
    IF j > Len(comps) THEN st
    ELSE model_and_save_all(comps, j + 1, model_and_save(comps[j], st))

\* The genes are updated before the entry of the testbench is applied.
simulate_step_late(gc, tb, sigs, t, st) ==
    LET done == model_and_save_all(gc.components, 1, st)
        states == IF t \in DOMAIN tb THEN apply_breakpoint(done.states, tb[t], sigs)
                  ELSE done.states
    IN [states |-> states,
        history |-> push_inputs(gc.inputs, 1, states, done.history)]

\* One pass of the loop of GeneticCircuit::simulate.
simulate_step(gc, tb, sigs, t, st) ==
    LET states == IF t \in DOMAIN tb THEN apply_breakpoint(st.states, tb[t], sigs)
                  ELSE st.states
    IN model_and_save_all(gc.components, 1,
                          [states |-> states,
                           history |-> push_inputs(gc.inputs, 1, states, st.history)])

\* The passes lo .. hi - 1 of `for i in 0..1000`, first half before second half.
RECURSIVE simulate_loop(_, _, _, _, _, _)
simulate_loop(gc, tb, sigs, lo, hi, st) ==
    IF hi <= lo THEN st
    ELSE IF hi = lo + 1 THEN simulate_step(gc, tb, sigs, lo, st)
    ELSE CHOOSE r \in { simulate_loop(gc, tb, sigs, (lo + hi) \div 2, hi, half) :
                           half \in {simulate_loop(gc, tb, sigs, lo, (lo + hi) \div 2, st)} } :
             TRUE

\* The promoters of a genetic circuit: of its inputs and of its genes.
promoters(gc) ==
    {gc.inputs[j].promoter : j \in DOMAIN gc.inputs} \cup
    {gc.components[j].data.promoter : j \in DOMAIN gc.components}

\* Gene::simulation_steady_state over the components, in order.
RECURSIVE simulation_steady_states(_, _, _)
simulation_steady_states(comps, j, ss) ==
    IF j > Len(comps) THEN ss
    ELSE LET sum_off == input_sum(comps[j].inputs, 1, [p \in DOMAIN ss |-> ss[p][1]])
             sum_on == input_sum(comps[j].inputs, 1, [p \in DOMAIN ss |-> ss[p][2]])
         IN simulation_steady_states(comps, j + 1,
                insert(ss, comps[j].data.promoter,
                       steady_state(comps[j].data.params, sum_on, sum_off)))

\* genetic_circuit/mod.rs GeneticCircuit::simulate
GeneticCircuit_simulate(gc, tb, sigs) ==
    LET in_proms == {gc.inputs[j].promoter : j \in DOMAIN gc.inputs}
        rpu(p) == gc.inputs[CHOOSE j \in DOMAIN gc.inputs : gc.inputs[j].promoter = p]
        states == [p \in promoters(gc) |->
                      IF \E j \in DOMAIN gc.components : gc.components[j].data.promoter = p
                      THEN 0 ELSE rpu(p).rpu_off]
        final == simulate_loop(gc, tb, sigs, 0, SimSteps,
                               [states |-> states, history |-> [p \in promoters(gc) |-> <<>>]])
    IN [history |-> final.history,
        steady_states |->
            simulation_steady_states(gc.components, 1,
                                     [p \in in_proms |-> <<rpu(p).rpu_off, rpu(p).rpu_on>>])]

\* simulator.rs simulate: the inputs start at 0.0, the steady states are (on, off).
simulator_simulate(gc, tb, sigs) ==
    LET in_proms == {gc.inputs[j].promoter : j \in DOMAIN gc.inputs}
        rpu(p) == gc.inputs[CHOOSE j \in DOMAIN gc.inputs : gc.inputs[j].promoter = p]
        final == simulate_loop(gc, tb, sigs, 0, SimSteps,
                               [states |-> [p \in promoters(gc) |-> 0],
                                history |-> [p \in promoters(gc) |-> <<>>]])
        ss == simulation_steady_states(gc.components, 1,
                                       [p \in in_proms |-> <<rpu(p).rpu_off, rpu(p).rpu_on>>])
    IN [history |-> final.history,
        steady_states |-> [p \in DOMAIN ss |-> <<ss[p][2], ss[p][1]>>]]

\* a * b on finite f64 values of either sign
SMul(a, b) == (a * b) \div Unit

\* helpers.rs lerp
lerp(curr, target, step) == SMul(step, target - curr) + curr

\* helpers.rs damp_params
damp_params(angular_freq, delta_time) ==
    LET exp_term == ExpNeg(SMul(angular_freq, delta_time))
        time_exp == SMul(delta_time, exp_term)
        time_exp_freq == SMul(time_exp, angular_freq)
    IN [pos_pos_coef |-> time_exp_freq + exp_term,
        pos_vel_coef |-> time_exp,
        vel_pos_coef |-> SMul(0 - angular_freq, time_exp_freq),
        vel_vel_coef |-> exp_term - time_exp_freq]

\* helpers.rs damp: <<new_state, new_velocity>>
damp(state, velocity, target_state, params) ==
    <<SMul(state - target_state, params.pos_pos_coef) + SMul(velocity, params.pos_vel_coef)
          + target_state,
      SMul(state - target_state, params.vel_pos_coef) + SMul(velocity, params.vel_vel_coef)>>

\* let delay = 50
SimDelay == 50

\* The bookkeeping Assembler::simulate does for one promoter and its target:
\* history, lerp_states, damp_states and final_hist.
track(st, pro, target) ==
    LET dq == damp(st.damp_states[pro][1], st.damp_states[pro][2], st.lerp_states[pro],
                   damp_params(10 * Unit, Unit \div 100))
    IN [st EXCEPT !.history[pro] = Append(@, target),
                  !.lerp_states[pro] = lerp(@, target, Unit \div 10),
                  !.damp_states[pro] = dq,
                  !.final_hist[pro] = Append(@, dq[1])]

\* The entries Assembler::simulate makes for a promoter before the loop.
track_init(st, pro, rpu) ==
    [input_targets |-> insert(st.input_targets, pro, rpu),
     history |-> insert(st.history, pro, <<rpu>>),
     lerp_states |-> insert(st.lerp_states, pro, rpu),
     damp_states |-> insert(st.damp_states, pro, <<rpu, 0>>),
     final_hist |-> insert(st.final_hist, pro, <<rpu>>)]

\* The largest of 0.0 and what look gives for the inputs of a gene.
RECURSIVE input_max(_, _, _)
input_max(ins, j, look) ==
    IF j > Len(ins) THEN 0 ELSE Max(look[ins[j]], input_max(ins, j + 1, look))

RECURSIVE Assembler_simulate_inputs(_, _, _)
Assembler_simulate_inputs(ins, j, st) ==
    IF j > Len(ins) THEN st
    ELSE Assembler_simulate_inputs(ins, j + 1,
             track(st, ins[j].promoter, st.input_targets[ins[j].promoter]))

\* The gene loop of one pass: each input is read SimDelay entries back in its history.
RECURSIVE Assembler_simulate_genes(_, _, _)
Assembler_simulate_genes(genes, j, st) ==
    IF j > Len(genes) THEN st
    ELSE LET look == [p \in DOMAIN st.history |->
                         st.history[p][Max(Len(st.history[p]) - SimDelay, 0) + 1]]
             target == transfer(input_max(genes[j].inputs, 1, look), genes[j].data.params)
         IN Assembler_simulate_genes(genes, j + 1, track(st, genes[j].data.promoter, target))

\* One pass of the loop of Assembler::simulate.
Assembler_simulate_step(gc, tb, sigs, t, st) ==
    LET targets == IF t \in DOMAIN tb
                   THEN apply_breakpoint(st.input_targets, tb[t], sigs)
                   ELSE st.input_targets
    IN Assembler_simulate_genes(
           gc.components, 1,
           Assembler_simulate_inputs(gc.inputs, 1, [st EXCEPT !.input_targets = targets]))

\* The passes lo .. hi - 1 of `for i in 0..1000`, first half before second half.
RECURSIVE Assembler_simulate_loop(_, _, _, _, _, _)
Assembler_simulate_loop(gc, tb, sigs, lo, hi, st) ==
    IF hi <= lo THEN st
    ELSE IF hi = lo + 1 THEN Assembler_simulate_step(gc, tb, sigs, lo, st)
    ELSE CHOOSE r \in { Assembler_simulate_loop(gc, tb, sigs, (lo + hi) \div 2, hi, half) :
                           half \in {Assembler_simulate_loop(gc, tb, sigs, lo,
                                                              (lo + hi) \div 2, st)} } :
             TRUE

\* The entries of the genes before the loop, in order.
RECURSIVE Assembler_simulate_init(_, _, _)
Assembler_simulate_init(genes, j, st) ==
    IF j > Len(genes) THEN st
    ELSE LET known == [p \in DOMAIN st.input_targets \cup
                                {genes[j].inputs[q] : q \in DOMAIN genes[j].inputs} |->
                          IF p \in DOMAIN st.input_targets THEN st.input_targets[p] ELSE 0]
             rpu == transfer(input_max(genes[j].inputs, 1, known), genes[j].data.params)
         IN Assembler_simulate_init(genes, j + 1, track_init(st, genes[j].data.promoter, rpu))

RECURSIVE Assembler_simulate_init_inputs(_, _, _)
Assembler_simulate_init_inputs(ins, j, st) ==
    IF j > Len(ins) THEN st
    ELSE Assembler_simulate_init_inputs(ins, j + 1,
                                        track_init(st, ins[j].promoter, ins[j].rpu_off))

\* assembler.rs Assembler::simulate: final_hist
Assembler_simulate(gc, tb, sigs) ==
    LET empty == [input_targets |-> EmptyMap, history |-> EmptyMap, lerp_states |-> EmptyMap,
                  damp_states |-> EmptyMap, final_hist |-> EmptyMap]
        st0 == Assembler_simulate_init(gc.components, 1,
                                       Assembler_simulate_init_inputs(gc.inputs, 1, empty))
    IN [history |-> Assembler_simulate_loop(gc, tb, sigs, 0, SimSteps, st0).final_hist,
        steady_states |-> EmptyMap]

\* GeneticCircuit::simulate on what into_biological builds.
GeneticCircuitSimulate ==
    /\ pc = "sim"
    /\ rev = "genetic_circuit"
    /\ simulation' = Some(GeneticCircuit_simulate(
                              into_biological(lc, gates_vec, selected_genes, inputs),
                              testbench, inputs))
    /\ pc' = "simulated"
    /\ UNCHANGED <<gates_vec, inputs, lc, result, evalvars, testbench>>
    /\ UNCHANGED <<searchvars, concvars, choosevars, buildvars, asmvars, assignvars>>

\* simulator.rs simulate on the same circuit.
SimulatorSimulate ==
    /\ pc = "sim"
    /\ rev = "simulator"
    /\ simulation' = Some(simulator_simulate(
                              into_biological(lc, gates_vec, selected_genes, inputs),
                              testbench, inputs))
    /\ pc' = "simulated"
    /\ UNCHANGED <<gates_vec, inputs, lc, result, evalvars, testbench>>
    /\ UNCHANGED <<searchvars, concvars, choosevars, buildvars, asmvars, assignvars>>

\* Assembler::simulate, as compile calls it.
AssemblerSimulate ==
    /\ pc = "sim"
    /\ rev = "assembler"
    /\ simulation' = Some(Assembler_simulate(
                              into_biological(lc, gates_vec, selected_genes, inputs),
                              testbench, inputs))
    /\ pc' = "simulated"
    /\ UNCHANGED <<gates_vec, inputs, lc, result, evalvars, testbench>>
    /\ UNCHANGED <<searchvars, concvars, choosevars, buildvars, asmvars, assignvars>>

InitSim ==
    /\ gates_vec \in SimLibraries
    /\ inputs = InputCatalog
    /\ lc \in SimCircuits
    /\ selected_genes \in [1..Cardinality(DOMAIN lc.gates) -> 0..(Len(gates_vec) - 1)]
    /\ testbench \in Testbenches
    /\ rev \in {"genetic_circuit", "simulator", "assembler"}
    /\ pc = "sim"
    /\ simulation = None
    /\ cache = EmptyMap
    /\ circuit_score = None
    /\ layers = EmptyMap
    /\ i = 0
    /\ best_score = 0
    /\ best_ass = EmptyMap
    /\ selected_gates = EmptyMap
    /\ score = 0
    /\ evals = <<>>
    /\ draws = 0
    /\ fallbacks = {}
    /\ scores = <<>>
    /\ bls = <<>>
    /\ imp = None
    /\ build = None
    /\ assigned_gates = EmptyMap
    /\ genetic_circuit = None
    /\ kd = EmptyMap
    /\ min = 0
    /\ tries = 0
    /\ walked = None
    /\ result = NoResult
    /\ mutex = 0
    /\ loaded = TRUE
    /\ loads = 1
    /\ req = <<>>
    /\ choose_in = None
    /\ choose_out = None

NextSim == GeneticCircuitSimulate \/ SimulatorSimulate \/ AssemblerSimulate

SpecSim == InitSim /\ [][NextSim]_vars

---------------------------------------------------------------------------
(* Concurrent compile requests on the shared Assembler (api/compile.rs) *)

\* Number of compile requests in flight.
MaxReq == 2

Requests == 1..MaxReq

\* The circuits the requests submit.
ConcCircuits == {c \in Circuits : Cardinality(DOMAIN c.gates) <= 2 /\ Len(c.inputs) = 1}

\* The contents static/gates.json can have; HashMap order fixes gates_vec.
ConcLibraries ==
    { s \in Libraries :
        \A p \in DOMAIN s : s[p].name \in { <<"P1", "PhlF">>, <<"S1", "SrpR">> } }

NoCircuit == [inputs |-> <<>>, output |-> "", gates |-> EmptyMap]

\* Every request reloads the files.
needs_load_always(ld) == TRUE

\* if !ass.loaded
needs_load(ld) == ~ld

\* compile, lines 70-75: lexer, parser, builder; nothing shared is touched.
Build(r) ==
    /\ req[r].pc = "idle"
    /\ \E c \in ConcCircuits :
          req' = [req EXCEPT ![r] = [pc |-> "built", lc |-> c, result |-> NoResult]]
    /\ UNCHANGED <<gates_vec, inputs, lc, pc, result, mutex, loaded, loads>>
    /\ UNCHANGED <<searchvars, evalvars, simvars, choosevars, buildvars, asmvars, assignvars>>

\* ASSIGNER.lock().unwrap(): blocks while another request holds the guard.
Lock(r) ==
    /\ req[r].pc = "built"
    /\ mutex = 0
    /\ mutex' = r
    /\ req' = [req EXCEPT ![r].pc = "locked"]
    /\ UNCHANGED <<gates_vec, inputs, lc, pc, result, loaded, loads>>
    /\ UNCHANGED <<searchvars, evalvars, simvars, choosevars, buildvars, asmvars, assignvars>>

\* if !ass.loaded { ass.load(); } and the entry into assign and search: a new
\* frame, whose locals hold whatever the memory held before.
Load(r) ==
    /\ req[r].pc = "locked"
    /\ mutex = r
    /\ IF needs_load(loaded)
       THEN /\ gates_vec' \in ConcLibraries
            /\ inputs' = InputCatalog
            /\ loaded' = TRUE
            /\ loads' = loads + 1
       ELSE UNCHANGED <<gates_vec, inputs, loaded, loads>>
    /\ lc' = req[r].lc
    /\ pc' = "start"
    /\ selected_gates' = EmptyMap
    /\ score' = 0
    /\ evals' = <<>>
    /\ draws' = 0
    /\ fallbacks' = {}
    /\ scores' = <<>>
    /\ bls' = <<>>
    /\ result' = NoResult
    /\ req' = [req EXCEPT ![r].pc = "assign"]
    /\ UNCHANGED <<layers, i, best_score, best_ass, mutex>>
    /\ UNCHANGED <<evalvars, simvars, choosevars, buildvars, asmvars, assignvars>>

\* The end of compile: Err by `?` at line 80 or Ok at line 85; the guard is
\* dropped. assemble, simulate, apply_rules and make_dna take &self.
Unlock(r) ==
    /\ req[r].pc = "assign"
    /\ mutex = r
    /\ pc \in {"done", "error"}
    /\ req' = [req EXCEPT ![r].pc = "returned", ![r].result = result]
    /\ mutex' = 0
    /\ pc' = "idle"
    /\ UNCHANGED <<gates_vec, inputs, lc, layers, i, best_score, best_ass,
                   selected_gates, score, evals, draws, fallbacks, scores, bls, result>>
    /\ UNCHANGED <<evalvars, simvars, choosevars, loaded, loads>>
    /\ UNCHANGED <<buildvars, asmvars, assignvars>>

\* Assembler::new(): nothing loaded; no request has arrived.
InitConc ==
    /\ gates_vec = <<>>
    /\ inputs = EmptyMap
    /\ lc = NoCircuit
    /\ pc = "idle"
    /\ layers = EmptyMap
    /\ i = 0
    /\ best_score = 0
    /\ best_ass = EmptyMap
    /\ selected_gates = EmptyMap
    /\ score = 0
    /\ evals = <<>>
    /\ draws = 0
    /\ fallbacks = {}
    /\ scores = <<>>
    /\ bls = <<>>
    /\ imp = None
    /\ build = None
    /\ assigned_gates = EmptyMap
    /\ genetic_circuit = None
    /\ kd = EmptyMap
    /\ min = 0
    /\ tries = 0
    /\ walked = None
    /\ result = NoResult
    /\ rev = "none"
    /\ selected_genes = <<>>
    /\ cache = EmptyMap
    /\ circuit_score = None
    /\ testbench = EmptyMap
    /\ simulation = None
    /\ mutex = 0
    /\ loaded = FALSE
    /\ loads = 0
    /\ req = [r \in Requests |-> [pc |-> "idle", lc |-> NoCircuit, result |-> NoResult]]
    /\ choose_in = None
    /\ choose_out = None

NextConc ==
    \/ \E r \in Requests : Build(r)
    \/ \E r \in Requests : Lock(r)
    \/ \E r \in Requests : Load(r)
    \/ SearchStart
    \/ SearchIterate
    \/ SearchReturn
    \/ \E r \in Requests : Unlock(r)

SpecConc == InitConc /\ [][NextConc]_vars

---------------------------------------------------------------------------
(* Assembler::choose_node on its own *)

\* The rows of weights choose_node is given: positive entries.
ChooseWeights == {200, 300, 500}

\* The samples of uni: [0, 1], both ends included.
ChooseDraws == ChSet \cup {250, 750}

\* The blacklists: groups of genes, and names of inputs.
ChooseBlacklists == SUBSET {"PhlF", "SrpR", "a"}

ChooseLibraries == {s \in EvalLibraries : Len(s) >= 2}

\* let sel = self.choose_node(ch, &layer[selected], bl)
ChooseNode ==
    /\ pc = "choose"
    /\ choose_out' = Some(choose_node(gates_vec, choose_in.value.ch,
                                      choose_in.value.weights, choose_in.value.bl)[1])
    /\ pc' = "chosen"
    /\ UNCHANGED <<gates_vec, inputs, lc, result, choose_in>>
    /\ UNCHANGED <<searchvars, evalvars, simvars, concvars, buildvars, asmvars, assignvars>>

InitChoose ==
    /\ gates_vec \in ChooseLibraries
    /\ \E ch \in ChooseDraws, bl \in ChooseBlacklists :
       \E weights \in [1..Len(gates_vec) -> ChooseWeights] :
          choose_in = Some([ch |-> ch, weights |-> weights, bl |-> bl])
    /\ choose_out = None
    /\ pc = "choose"
    /\ inputs = InputCatalog
    /\ lc = NoCircuit
    /\ layers = EmptyMap
    /\ i = 0
    /\ best_score = 0
    /\ best_ass = EmptyMap
    /\ selected_gates = EmptyMap
    /\ score = 0
    /\ evals = <<>>
    /\ draws = 0
    /\ fallbacks = {}
    /\ scores = <<>>
    /\ bls = <<>>
    /\ imp = None
    /\ build = None
    /\ assigned_gates = EmptyMap
    /\ genetic_circuit = None
    /\ kd = EmptyMap
    /\ min = 0
    /\ tries = 0
    /\ walked = None
    /\ result = NoResult
    /\ rev = "none"
    /\ selected_genes = <<>>
    /\ cache = EmptyMap
    /\ circuit_score = None
    /\ testbench = EmptyMap
    /\ simulation = None
    /\ mutex = 0
    /\ loaded = TRUE
    /\ loads = 1
    /\ req = <<>>

NextChoose == ChooseNode

SpecChoose == InitChoose /\ [][NextChoose]_vars

---------------------------------------------------------------------------
(* Properties of the search *)

\* M: the gates of the circuit; L: the size of the library.
M == Cardinality(DOMAIN lc.gates)

L == Len(gates_vec)

\* C1: a circuit with more gates than the library has genes gets the capacity
\* error before any layer exists and before any sample is drawn: no iteration
\* runs, nothing is assigned or scored. A circuit with M <= L gets no such error.
C1_CapacityError ==
    /\ (M > L /\ pc # "start") =>
          /\ pc = "error"
          /\ result = search_err
          /\ layers = EmptyMap
          /\ draws = 0
          /\ i = 0
          /\ scores = <<>>
          /\ selected_gates = EmptyMap
          /\ best_ass = EmptyMap
    /\ (M <= L) => (pc # "error" /\ result # search_err)

C1_Witness == pc = "error" /\ M > L /\ result = search_err

\* h is reached from gate g along the gate inputs.
RECURSIVE Reaches(_, _, _)
Reaches(gates, g, h) ==
    /\ g \in DOMAIN gates
    /\ \E j \in DOMAIN gates[g].inputs :
          gates[g].inputs[j] = h \/ Reaches(gates, gates[g].inputs[j], h)

\* Every gate lies between the output and an input, so two gates lie on a
\* common output-to-input path exactly when one is reached from the other.
OnCommonPath(gates, g, h) == Reaches(gates, g, h) \/ Reaches(gates, h, g)

GroupAt(idx) == get_group(gates_vec[idx + 1].name)

\* C2: in every sampled assignment no two gates on a common path between the
\* output and an input are given library genes of one group.
C2_PathExclusion ==
    \A g, h \in DOMAIN selected_gates :
        (g # h /\ OnCommonPath(lc.gates, g, h)) =>
            GroupAt(selected_gates[g]) # GroupAt(selected_gates[h])

\* C3: the assignment the search returns covers exactly the gates of the
\* circuit, each with an index in [0, L).
C3_Coverage ==
    (pc = "done") =>
        /\ DOMAIN result.assignment = DOMAIN lc.gates
        /\ \A g \in DOMAIN result.assignment : result.assignment[g] \in 0..(L - 1)

\* C4: the recorded best score starts at 0 and no iteration lowers it.
C4_MonotoneBest ==
    [][best_score' >= best_score /\ (pc = "start" => best_score' = 0)]_vars

\* An iteration has scored below the incumbent and left it in place.
C4_Witness == i >= 2 /\ best_score > 0 /\ score # NaN /\ score < best_score

\* C5: once the capacity check has passed the loop runs exactly MaxIter
\* passes, one sample per gate in each, and then returns the incumbent as a
\* success; until then nothing is returned, whatever the scores.
C5_ExactBudget ==
    /\ (pc = "loop") => (i <= MaxIter /\ result = NoResult /\ Len(scores) = i /\ draws = i * M)
    /\ (pc = "done") =>
          /\ i = MaxIter
          /\ Len(scores) = MaxIter
          /\ draws = MaxIter * M
          /\ result = search_ok(best_ass, best_score)
    /\ (pc = "error") => M > L

\* The budget is spent with a NaN score in it and the search has returned Ok.
C5_Witness ==
    /\ pc = "done" /\ result.ok /\ i = MaxIter
    /\ \E k \in DOMAIN scores : scores[k] = NaN

\* C6: when no iteration scored above 0 the search returns the initial
\* incumbent, the empty assignment with score 0, as a success.
C6_InitialIncumbent ==
    (pc = "done" /\ \A k \in DOMAIN scores : ~FGt(scores[k], 0)) =>
        result = search_ok(EmptyMap, 0)

C6_Witness ==
    /\ pc = "done" /\ Len(scores) = MaxIter /\ MaxIter >= 1
    /\ \A k \in DOMAIN scores : ~FGt(scores[k], 0)
    /\ result = search_ok(EmptyMap, 0)

\* C7: the second test call of an iteration, run on the cache the first one
\* filled, returns what the first returned; and no step changes the circuit,
\* the library or the input catalog.
C7_Deterministic ==
    /\ [](evals # <<>> => evals[1] = evals[2])
    /\ [][UNCHANGED <<lc, gates_vec, inputs>>]_vars

\* A gate that is read twice in one evaluation has been scored twice on one cache.
C7_Witness ==
    /\ evals # <<>> /\ evals[1] = evals[2]
    /\ \E g, h \in DOMAIN lc.gates :
          Cardinality({j \in DOMAIN lc.gates[h].inputs : lc.gates[h].inputs[j] = g}) >= 2

---------------------------------------------------------------------------
(* Properties of the steady-state evaluators, under SpecEval *)

\* The assignment of the evaluated circuit as the search keeps it: node -> index.
selected_map == [n \in DOMAIN lc.gates |-> selected_of(lc, selected_genes, n)]

\* The tuple GeneticCircuit::test left in the cache for the output node.
output_tuple == cache[promoter_of(lc, gates_vec, selected_genes, inputs, lc.output)]

\* What the search loop computes as the score of the evaluated circuit and assignment.
search_score ==
    LET t == Assembler_test(gates_vec, inputs, lc.output, lc.gates, selected_map,
                            [visited |-> {}, cached |-> EmptyMap])
    IN FDiv(t.on, t.off)

\* C8: the score GeneticCircuit::test records is exp(-diff/10) * (on/off) of the
\* (off, on, diff) tuple of the output node after its gene's transfer function,
\* and the search loop scores the same circuit and assignment with the same value.
C8_ScoreFormula ==
    (pc = "evaluated" /\ rev = "genetic_circuit") =>
        /\ circuit_score =
              Some(FMul(inv_diff_error(output_tuple[3]),
                        FDiv(output_tuple[2], output_tuple[1])))
        /\ search_score =
              FMul(inv_diff_error(output_tuple[3]),
                   FDiv(output_tuple[2], output_tuple[1]))

NotOnly(circ) == \A g \in DOMAIN circ.gates : circ.gates[g].kind = "NOT"

\* C9: on a circuit of NOT gates only, the evaluators of devices/gate.rs and of
\* components/gene.rs finish, every node they cache has diff = 0, and the tuple
\* of a NOT gate is its child's tuple put through the gene's steady_state.
C9_NotPassThrough ==
    (pc \in {"evaluated", "panic"} /\ rev \in {"devices", "components"} /\ NotOnly(lc)) =>
        /\ pc = "evaluated"
        /\ \A k \in DOMAIN cache : cache[k][3] = 0
        /\ rev = "devices" =>
              \A g \in DOMAIN lc.gates :
                  LET child == cache[lc.gates[g].inputs[1]]
                      ss == steady_state(gates_vec[selected_of(lc, selected_genes, g) + 1].params,
                                         child[2], child[1])
                  IN cache[g] = <<ss[1], ss[2], child[3]>>

\* A NOR gate fed directly by the two inputs of the circuit.
NorOfInputs(circ) ==
    /\ DOMAIN circ.gates = {circ.output}
    /\ circ.gates[circ.output].kind = "NOR"
    /\ \A j \in DOMAIN circ.gates[circ.output].inputs :
          IsInput(circ, circ.gates[circ.output].inputs[j])

\* The diff the evaluator r leaves at the output node when the inputs are sigs.
output_diff(r, sigs) ==
    IF r = "devices"
    THEN test_gates(lc, gates_vec, selected_genes, 1, seed_gates(lc, sigs))[lc.output][3]
    ELSE GeneticCircuit_test(into_biological(lc, gates_vec, selected_genes, sigs)).cached[
             promoter_of(lc, gates_vec, selected_genes, sigs, lc.output)][3]

on_gap(sigs) == Abs(sigs.a.rpu_on - sigs.b.rpu_on)

off_gap(sigs) == Abs(sigs.a.rpu_off - sigs.b.rpu_off)

\* The diff the evaluation of this state left at the output node.
cache_diff == IF rev = "devices" THEN cache[lc.output][3] ELSE output_tuple[3]

\* C10: for a NOR gate fed by the two inputs, under devices/gate.rs and
\* genetic_circuit/gene.rs: identical (rpu_off, rpu_on) give diff = 0, different
\* ones give diff > 0, and inputs whose |on0 - on1| and |off0 - off1| are no
\* smaller give a diff that is no smaller, for every assignment.
C10_NorDiff ==
    (pc = "evaluated" /\ rev \in {"devices", "genetic_circuit"} /\ NorOfInputs(lc)) =>
        /\ (on_gap(inputs) = 0 /\ off_gap(inputs) = 0) => cache_diff = 0
        /\ (on_gap(inputs) # 0 \/ off_gap(inputs) # 0) => cache_diff > 0
        /\ cache_diff = output_diff(rev, inputs)
        /\ \A alt \in InputCatalogs :
              (on_gap(alt) >= on_gap(inputs) /\ off_gap(alt) >= off_gap(inputs))
                  => output_diff(rev, alt) >= cache_diff

C10_Witness ==
    /\ pc = "evaluated"
    /\ rev = "genetic_circuit"
    /\ NorOfInputs(lc)
    /\ cache_diff > 0
    /\ inputs.a.rpu_on < inputs.b.rpu_on
    /\ \E alt \in InputCatalogs :
          /\ on_gap(alt) >= on_gap(inputs)
          /\ off_gap(alt) > off_gap(inputs)
          /\ output_diff(rev, alt) > cache_diff

\* C15: a position at which choose_node ran off the end of the list (every gate
\* excluded, or the mass never reached the draw) holds the last index L - 1; the
\* iteration it happened in is complete (every gate has a selection, both tests
\* ran, the score is recorded and i advanced), and the search ends in Ok: the
\* only error is the capacity check, taken before any draw.
C15_FallbackContinues ==
    /\ (pc \in {"loop", "done"} /\ i > 0) =>
          /\ \A n \in fallbacks : selected_gates[n] = L - 1
          /\ DOMAIN selected_gates = DOMAIN lc.gates
          /\ Len(evals) = 2
          /\ Len(scores) = i /\ scores[i] = score
          /\ DOMAIN layers = DOMAIN lc.gates
    /\ (pc = "done") => result.ok
    /\ (pc = "error") => (fallbacks = {} /\ draws = 0)

\* A search that fell back in its last iteration has returned Ok.
C15_Witness == pc = "done" /\ fallbacks # {} /\ result.ok /\ L >= 2

---------------------------------------------------------------------------
(* Properties of the evaluators' node rules, under SpecEval *)

\* No two gates of the circuit hold genes of one promoter.
PromotersDistinct ==
    \A g, h \in DOMAIN lc.gates :
        g # h => promoter_of(lc, gates_vec, selected_genes, inputs, g) #
                 promoter_of(lc, gates_vec, selected_genes, inputs, h)

\* The tuple the evaluation of this state holds for node n.
node_tuple(n) ==
    IF rev = "genetic_circuit"
    THEN cache[promoter_of(lc, gates_vec, selected_genes, inputs, n)]
    ELSE IF rev = "assembler" /\ IsInput(lc, n)
    THEN <<inputs[n].rpu_off, inputs[n].rpu_on>>
    ELSE cache[n]

\* The diff of a tuple, 0 for an input of Assembler::test, which carries none.
tuple_diff(t) == IF Len(t) >= 3 THEN t[3] ELSE 0

\* The gene assigned to gate g.
gene_of(g) == gates_vec[selected_of(lc, selected_genes, g) + 1]

\* What the evaluator of this state makes of a pre-transfer (off, on): the pair
\* it caches as (new_off, new_on).
applied(g, off, on) ==
    IF rev = "assembler"
    THEN <<transfer(on, gene_of(g).params), transfer(off, gene_of(g).params)>>
    ELSE steady_state(gene_of(g).params, on, off)

\* The evaluations whose cache still holds one tuple per node when they end.
PerNode ==
    /\ pc = "evaluated"
    /\ rev \in {"devices", "genetic_circuit", "assembler"}
    /\ rev = "genetic_circuit" => PromotersDistinct

\* C17: at every NOR node the tuple handed to the transfer function is
\* off = c0.off + c1.off, on = min(c0.on, c1.on) and the node's diff is
\* |c0.on - c1.on| + |c0.off - c1.off| + c0.diff + c1.diff, which is never
\* negative and never below the sum of the children's diffs.
C17_NorCombine ==
    PerNode =>
        \A g \in DOMAIN lc.gates :
            (lc.gates[g].kind = "NOR") =>
                LET c0 == node_tuple(lc.gates[g].inputs[1])
                    c1 == node_tuple(lc.gates[g].inputs[2])
                    t == node_tuple(g)
                    ap == applied(g, c0[1] + c1[1], Min(c0[2], c1[2]))
                IN /\ Len(t) >= 3
                   /\ t[1] = ap[1] /\ t[2] = ap[2]
                   /\ t[3] = Abs(c0[2] - c1[2]) + Abs(c0[1] - c1[1])
                                + tuple_diff(c0) + tuple_diff(c1)
                   /\ t[3] >= 0
                   /\ t[3] >= tuple_diff(c0) + tuple_diff(c1)

\* The (off, on, diff) a gate's evaluator combines from the children of g before
\* the transfer function: the child's tuple for a NOT gate, and for a NOR gate
\* the sum and min of gate.rs and gene.rs or the two max of Assembler::test.
pre_transfer(g) ==
    LET c0 == node_tuple(lc.gates[g].inputs[1])
    IN IF lc.gates[g].kind = "NOT" THEN <<c0[1], c0[2], tuple_diff(c0)>>
       ELSE LET c1 == node_tuple(lc.gates[g].inputs[2])
            IN IF rev = "assembler"
               THEN <<Max(c1[1], Max(c0[1], 0)), Max(c1[2], Max(c0[2], 0)), 0>>
               ELSE <<c0[1] + c1[1], Min(c0[2], c1[2]),
                      Abs(c0[2] - c1[2]) + Abs(c0[1] - c1[1]) + c0[3] + c1[3]>>

\* C18: the tuple cached for a gate with pre-transfer tuple (off, on, diff) is
\* (transfer(on)/decay, transfer(off)/decay, diff) with the parameters of the
\* assigned gene: the levels swapped, the diff passed through.
C18_TransferSwap ==
    PerNode =>
        \A g \in DOMAIN lc.gates :
            LET pre == pre_transfer(g)
                t == node_tuple(g)
                prm == gene_of(g).params
            IN /\ Len(t) >= 3
               /\ t[1] = FDiv(Gene_transfer(prm, pre[2]), prm.decay)
               /\ t[2] = FDiv(Gene_transfer(prm, pre[1]), prm.decay)
               /\ t[3] = pre[3]

\* C19: the tuple Assembler::test and GeneticCircuit::test leave for the output
\* node, and for every node whose cache entry no other node shares, is the one
\* the plain recursion without a cache computes for it.
C19_MemoRefines ==
    (pc = "evaluated" /\ rev \in {"assembler", "genetic_circuit"}) =>
        \A g \in DOMAIN lc.gates :
            (g = lc.output \/ rev = "assembler" \/ PromotersDistinct) =>
                IF rev = "assembler"
                THEN (g \in DOMAIN cache) =>
                        cache[g] = Assembler_test_plain(gates_vec, inputs, g, lc.gates,
                                                        selected_names(lc, selected_genes))
                ELSE <<node_tuple(g)[1], node_tuple(g)[2], node_tuple(g)[3]>> =
                        Gene_test_plain(lc, gates_vec, selected_genes, inputs, g)

---------------------------------------------------------------------------
(* Properties of choose_node, under SpecChoose *)

\* The positions (from 1) of the candidates the blacklist leaves.
NonExcluded ==
    {j \in DOMAIN choose_in.value.weights :
        get_group(gates_vec[j].name) \notin choose_in.value.bl}

\* The sum of f over the members of S, in index order.
RECURSIVE SumOver(_, _)
SumOver(S, f) ==
    IF S = {} THEN 0
    ELSE LET m == CHOOSE x \in S : \A y \in S : y <= x
         IN FAdd(SumOver(S \ {m}, f), f[m])

\* The cumulative mass weight[j]/S of the candidates not excluded up to position p.
MassUpTo(p) ==
    LET total == SumOver(NonExcluded, choose_in.value.weights)
        share == [j \in DOMAIN choose_in.value.weights |->
                     FDiv(choose_in.value.weights[j], total)]
    IN SumOver({j \in NonExcluded : j <= p}, share)

\* The candidates not excluded at which the cumulative mass has reached the draw.
Reached == {p \in NonExcluded : FLe(choose_in.value.ch, MassUpTo(p))}

\* C20: choose_node returns the smallest index that is not excluded at which the
\* cumulative weight[j]/S of the indices not excluded reaches the draw; an index
\* that is excluded is returned only as the fallback, when no index is reached.
C20_RouletteWheel ==
    (pc = "chosen") =>
        /\ Reached # {} =>
              /\ choose_out.value + 1 \in Reached
              /\ \A p \in Reached : choose_out.value + 1 <= p
        /\ (choose_out.value + 1 \notin NonExcluded) =>
              (Reached = {} /\ choose_out.value = Len(gates_vec) - 1)

\* The draw skipped an excluded index and stopped at a later one.
C20_Witness ==
    /\ pc = "chosen"
    /\ Reached # {}
    /\ \E j \in 1..choose_out.value : j \notin NonExcluded
    /\ \E p \in NonExcluded : p < choose_out.value + 1

---------------------------------------------------------------------------
(* Properties of the dynamics simulators, under SpecSim *)

\* The promoters simulate is to report: of the circuit's inputs and of its genes.
sim_promoters ==
    {inputs[lc.inputs[j]].promoter : j \in DOMAIN lc.inputs} \cup
    {gates_vec[selected_genes[p] + 1].promoter : p \in DOMAIN selected_genes}

\* C11: after simulate the output map holds one history for every input promoter
\* and every gene promoter of the circuit, and each has exactly 1000 entries.
C11_HistoryLength ==
    (pc = "simulated") =>
        /\ DOMAIN simulation.value.history = sim_promoters
        /\ \A p \in DOMAIN simulation.value.history :
              Len(simulation.value.history[p]) = SimSteps

\* The target the testbench schedules for input n at step t: the value of the
\* latest entry at a time <= t that names n, rpu_off when there is none.
scheduled(n, t) ==
    LET times == {u \in DOMAIN testbench : u <= t /\ n \in DOMAIN testbench[u]}
    IN IF times = {} THEN inputs[n].rpu_off
       ELSE LET last == CHOOSE u \in times : \A v \in times : v <= u
            IN IF testbench[last][n] THEN inputs[n].rpu_on ELSE inputs[n].rpu_off

\* C12: in GeneticCircuit::simulate and in simulator.rs the history of an input
\* promoter holds at every step the target scheduled for that step, with no lag.
C12_InputClamped ==
    (pc = "simulated" /\ rev \in {"genetic_circuit", "simulator"}) =>
        \A j \in DOMAIN lc.inputs :
            LET h == simulation.value.history[inputs[lc.inputs[j]].promoter]
            IN /\ Len(h) = SimSteps
               /\ \A t \in 0..(SimSteps - 1) : h[t + 1] = scheduled(lc.inputs[j], t)

\* The steps at which the testbench changes the target of input n.
switches(n) ==
    {t \in 0..(SimSteps - 1) :
        scheduled(n, t) # (IF t = 0 THEN inputs[n].rpu_off ELSE scheduled(n, t - 1))}

\* A circuit of one NOT gate on one input.
SingleNot(circ) ==
    /\ Len(circ.inputs) = 1
    /\ DOMAIN circ.gates = {circ.output}
    /\ circ.gates[circ.output].kind = "NOT"

\* C13: for one NOT gate whose input is switched once, the history of the gate's
\* promoter gets no farther from the steady level of the current input state at
\* any step, and every entry lies in the band [ymin, ymax] of the assigned gene.
C13_MonotoneInBand ==
    (pc = "simulated" /\ rev = "genetic_circuit" /\ SingleNot(lc)
        /\ Cardinality(switches(lc.inputs[1])) = 1) =>
        LET gene == gates_vec[selected_genes[1] + 1]
            h == simulation.value.history[gene.promoter]
            level(t) == FDiv(Gene_transfer(gene.params, scheduled(lc.inputs[1], t)),
                             gene.params.decay)
        IN /\ \A t \in 1..(SimSteps - 1) :
                  (t \notin switches(lc.inputs[1])) =>
                      /\ Abs(h[t + 1] - level(t)) <= Abs(h[t] - level(t))
                      /\ (h[t] <= level(t)) = (h[t + 1] <= level(t)) \/ h[t + 1] = level(t)
           /\ \A t \in 1..SimSteps : gene.params.ymin <= h[t] /\ h[t] <= gene.params.ymax

---------------------------------------------------------------------------
(* Properties of concurrent compile requests, under SpecConc *)

\* The request that holds the guard is inside assign, reading the library.
Reading == pc \in {"start", "loop", "done", "error"}

\* C14: in every interleaving the load runs at most once, a request reads the
\* library only when the load has completed, and once loaded the library
\* (gates_vec, inputs) never changes.
C14_LoadOnce ==
    /\ [](loads <= 1)
    /\ [](Reading => (loaded /\ loads = 1 /\ gates_vec \in ConcLibraries))
    /\ [][loaded => (loaded' /\ gates_vec' = gates_vec /\ inputs' = inputs)]_vars

\* A second request is in its search loop after the first one returned.
C14_Witness ==
    /\ \E r \in Requests : req[r].pc = "returned"
    /\ \E r \in Requests : req[r].pc = "assign" /\ mutex = r
    /\ pc = "loop"
    /\ loads = 1

\* The Layers init builds from nothing: one constant one-row (output) or L-row
\* matrix per gate of the circuit, and no other entry.
FreshLayers(circ, lib, lay) ==
    /\ DOMAIN lay = DOMAIN circ.gates
    /\ \A g \in DOMAIN lay :
          /\ Len(lay[g]) = (IF g = circ.output THEN 1 ELSE Len(lib))
          /\ \E w \in InitWeightSet :
                \A r \in DOMAIN lay[g] :
                    /\ Len(lay[g][r]) = Len(lib)
                    /\ \A c \in DOMAIN lay[g][r] : lay[g][r][c] = w

\* C16: whatever ran before, a search enters its loop with Layers built from
\* nothing for its own circuit, incumbent score 0 and an empty assignment; no
\* step of it changes the library; and the assignment it returns names only
\* gates of its own circuit.
C16_OwnState ==
    /\ []((pc = "loop" /\ i = 0) =>
            (FreshLayers(lc, gates_vec, layers) /\ best_score = 0 /\ best_ass = EmptyMap))
    /\ []((pc = "done") => (DOMAIN result.assignment \subseteq DOMAIN lc.gates))
    /\ [][(pc \in {"start", "loop"}) => (gates_vec' = gates_vec /\ inputs' = inputs)]_vars

\* A request enters the loop for a circuit other than the one an earlier request
\* searched and left trained Layers for.
C16_Witness ==
    /\ pc = "loop" /\ i = 0
    /\ \E r \in Requests :
          /\ req[r].pc = "returned"
          /\ req[r].result.ok
          /\ req[r].lc # lc
          /\ req[r].result.assignment # EmptyMap

---------------------------------------------------------------------------
(* Properties of the blacklist and of the incumbent, under Spec *)
---------------------------------------------------------------------------

InputNames == {lc.inputs[j] : j \in DOMAIN lc.inputs}

\* The groups of the genes the last walk chose at the positions before the k-th.
GroupsBefore(k) == {GroupAt(selected_gates[bls[j].name]) : j \in 1..(k - 1)}

\* C21: the blacklist a position of iteration i samples under is the input
\* signal names together with the groups of the genes chosen at the earlier
\* positions of the same iteration, and nothing else (no group of an earlier
\* iteration); along the positions of one iteration it never shrinks.
C21_ExclusionSet ==
    /\ \A k \in DOMAIN bls : bls[k].bl = InputNames \cup GroupsBefore(k)
    /\ \A k \in DOMAIN bls : k > 1 => bls[k - 1].bl \subseteq bls[k].bl

\* The second iteration has sampled two positions, and a group the incumbent
\* of the first iteration holds is not in its last blacklist.
C21_Witness ==
    /\ i = 2
    /\ Len(bls) >= 2
    /\ bls[2].bl # bls[1].bl
    /\ \E g \in DOMAIN best_ass : GroupAt(best_ass[g]) \notin bls[Len(bls)].bl

\* C22: the update of an iteration changes, in the Layer of every gate, only the
\* slot of the gene chosen for that gate: every other slot keeps exactly its
\* previous value, and the chosen slot of the output gate's Layer becomes
\* old + lr * (reward - old).
C22_UpdateFrame ==
    [][(pc = "loop" /\ i' = i + 1) =>
          /\ \A g \in DOMAIN layers : \A r \in DOMAIN layers[g] :
             \A c \in DOMAIN layers[g][r] :
                 c # selected_gates'[g] + 1 => layers'[g][r][c] = layers[g][r][c]
          /\ score' # NaN =>
                LET id == selected_gates'[lc.output] + 1
                    old == layers[lc.output][1][id]
                IN layers'[lc.output][1][id] =
                       old + (lrate(i, MaxIter) * (out_error(score') - old)) \div Unit
      ]_vars

\* C23: every weight of every Layer is a number within [0, 1], after any number
\* of iterations of the search.
C23_WeightsInUnit ==
    \A g \in DOMAIN layers : \A r \in DOMAIN layers[g] : \A c \in DOMAIN layers[g][r] :
        /\ layers[g][r][c] # NaN
        /\ 0 <= layers[g][r][c]
        /\ layers[g][r][c] <= Unit

\* The largest of 0 and the scores of s that are numbers.
RECURSIVE max_score(_, _)
max_score(s, j) ==
    IF j > Len(s) THEN 0
    ELSE LET rest == max_score(s, j + 1)
         IN IF FGt(s[j], rest) THEN s[j] ELSE rest

\* The score the search loop gives an assignment of the circuit.
score_of(ass) ==
    LET t == Assembler_test(gates_vec, inputs, lc.output, lc.gates, ass,
                            [visited |-> {}, cached |-> EmptyMap])
    IN FDiv(t.on, t.off)

\* C27: the incumbent pair is consistent at every point of the search: the
\* recorded best score is the maximum of 0 and the scores sampled so far; the
\* recorded best assignment is empty while that maximum is 0 and otherwise an
\* assignment of all gates whose score is the recorded best score; an iteration
\* replaces both or neither, with its own sample and score, and an iteration
\* that only ties the recorded best score keeps the earlier assignment.
C27_IncumbentPair ==
    /\ [](best_score = max_score(scores, 1))
    /\ [](IF best_score = 0 THEN best_ass = EmptyMap
          ELSE DOMAIN best_ass = DOMAIN lc.gates /\ score_of(best_ass) = best_score)
    /\ [][(i' = i + 1) =>
             \/ UNCHANGED <<best_score, best_ass>>
             \/ best_score' = score' /\ best_ass' = selected_gates' /\ score' # best_score
       ]_vars

\* The second iteration sampled another assignment with the score of the
\* first, and the incumbent is still the assignment of the first.
C27_Witness ==
    /\ i = 2
    /\ scores[1] = scores[2]
    /\ FGt(scores[1], 0)
    /\ best_score = scores[1]
    /\ best_ass # selected_gates
    /\ DOMAIN best_ass = DOMAIN lc.gates

---------------------------------------------------------------------------
(* The parts of the state an operation does not use, as construction leaves them *)

SearchIdle ==
    /\ layers = EmptyMap
    /\ i = 0
    /\ best_score = 0
    /\ best_ass = EmptyMap
    /\ selected_gates = EmptyMap
    /\ score = 0
    /\ evals = <<>>
    /\ draws = 0
    /\ fallbacks = {}
    /\ scores = <<>>
    /\ bls = <<>>
    /\ result = NoResult

EvalIdle ==
    /\ rev = "none"
    /\ selected_genes = <<>>
    /\ cache = EmptyMap
    /\ circuit_score = None

SimIdle == testbench = EmptyMap /\ simulation = None

ConcIdle == mutex = 0 /\ loaded = TRUE /\ loads = 1 /\ req = <<>>

ChooseIdle == choose_in = None /\ choose_out = None

BuildIdle == imp = None /\ build = None

AsmIdle == assigned_gates = EmptyMap /\ genetic_circuit = None

AssignIdle == kd = EmptyMap /\ min = 0 /\ tries = 0 /\ walked = None
---------------------------------------------------------------------------
(* The search on libraries that hold two genes of one response *)

\* QacR with the response parameters of P1_PhlF: the two score alike.
TiePool ==
    { g \in GenePool : g.name \in { <<"P1", "PhlF">>, <<"S1", "SrpR">> } }
    \cup { [name |-> <<"Q1", "QacR">>, promoter |-> "pQacR",
            params |-> [ymax |-> 3900, ymin |-> 20, k |-> 130, n |-> 2, decay |-> 1000]] }

TieLibraries ==
    { s \in UNION { [1..n -> TiePool] : n \in 1..MaxLib } :
        \A p, q \in DOMAIN s : p # q => s[p].name # s[q].name }

TieCircuits == { c \in Circuits : Cardinality(DOMAIN c.gates) = 1 \/ c.inputs = <<"a", "b">> }

InitTie ==
    /\ gates_vec \in TieLibraries
    /\ inputs = InputCatalog
    /\ lc \in TieCircuits
    /\ pc = "start"
    /\ SearchIdle /\ EvalIdle /\ SimIdle /\ ConcIdle /\ ChooseIdle
    /\ BuildIdle /\ AsmIdle /\ AssignIdle

SpecTie == InitTie /\ [][Next]_vars

---------------------------------------------------------------------------
(* One pass of Assembler::walk over circuits with sibling branches *)

MaxWalkLib == 3

WalkLibraries ==
    { s \in UNION { [1..n -> GenePool] : n \in 1..MaxWalkLib } :
        \A p, q \in DOMAIN s : p # q => s[p].name # s[q].name }

WalkCircuits == { c \in EvalCircuits : Cardinality(DOMAIN c.gates) >= 2 }

\* search has passed the capacity check and init has filled the layers.
InitWalk ==
    /\ gates_vec \in WalkLibraries
    /\ inputs = InputCatalog
    /\ lc \in WalkCircuits
    /\ ~capacity_exceeded(lc, gates_vec)
    /\ pc = "walk"
    /\ \E ws \in [DOMAIN lc.gates -> InitWeightSet] :
           layers = init(lc.output, lc.gates, EmptyMap, 1, Len(gates_vec), ws)
    /\ i = 0
    /\ best_score = 0
    /\ best_ass = EmptyMap
    /\ selected_gates = EmptyMap
    /\ score = 0
    /\ evals = <<>>
    /\ draws = 0
    /\ fallbacks = {}
    /\ scores = <<>>
    /\ bls = <<>>
    /\ result = NoResult
    /\ EvalIdle /\ SimIdle /\ ConcIdle /\ ChooseIdle
    /\ BuildIdle /\ AsmIdle /\ AssignIdle

\* self.walk(&lc.output.name, 0, &lc.gates, &mut selected_gates, &layers, &mut bl, uni, &mut rng)
Walk ==
    /\ pc = "walk"
    /\ \E chs \in [1..Cardinality(DOMAIN lc.gates) -> ChSet] :
       \E w \in {walk(gates_vec, inputs, lc.output, 0, lc.gates, layers,
                      [sel |-> EmptyMap, bl |-> new_blacklist(lc),
                       k |-> 0, fb |-> {}, seen |-> <<>>], chs)} :
            /\ selected_gates' = w.sel
            /\ fallbacks' = w.fb
            /\ bls' = w.seen
            /\ draws' = w.k
    /\ pc' = "walked"
    /\ UNCHANGED <<gates_vec, inputs, lc, result, layers, i, best_score, best_ass,
                   score, evals, scores>>
    /\ UNCHANGED <<evalvars, simvars, concvars, choosevars, buildvars, asmvars, assignvars>>

NextWalk == Walk

SpecWalk == InitWalk /\ [][NextWalk]_vars

---------------------------------------------------------------------------
(* Properties of the simulators' initial state and step order, under SpecSim *)

\* The inputs the testbench never names.
unscheduled == {n \in {lc.inputs[j] : j \in DOMAIN lc.inputs} :
                   \A u \in DOMAIN testbench : n \notin DOMAIN testbench[u]}

\* The gates all of whose inputs are inputs of the circuit.
first_gates == {g \in DOMAIN lc.gates :
                   \A j \in DOMAIN lc.gates[g].inputs : lc.gates[g].inputs[j] \in DOMAIN inputs}

\* The promoters of the inputs of g.
input_promoters(g) ==
    [j \in DOMAIN lc.gates[g].inputs |-> inputs[lc.gates[g].inputs[j]].promoter]

\* C24: before step 0 the concentration of every input promoter is that
\* input's rpu_off and that of every gene promoter is 0: the history of an
\* input the testbench never names is rpu_off at every entry; the first Euler
\* step of a gene driven by inputs starts from 0, so its first entry is the
\* transfer of the inputs' first entries; and a history that is seeded with the
\* initial concentration is seeded with 0 for a gene.
C24_InitialState ==
    (pc = "simulated") =>
        LET hist == simulation.value.history
        IN /\ \A n \in unscheduled :
                 \A t \in DOMAIN hist[inputs[n].promoter] :
                     hist[inputs[n].promoter][t] = inputs[n].rpu_off
           /\ \A g \in first_gates :
                 PromotersDistinct =>
                    IF rev = "assembler" THEN hist[gene_of(g).promoter][1] = 0
                    ELSE hist[gene_of(g).promoter][1] =
                            Gene_transfer(gene_of(g).params,
                                          input_sum(input_promoters(g), 1,
                                                    [p \in DOMAIN hist |-> hist[p][1]]))

\* The drive of gate g at step t (1-based entry t of the histories): the sum of
\* the entries its input promoters were given in that step.
RECURSIVE drive(_, _, _, _)
drive(hist, g, t, j) ==
    IF j > Len(lc.gates[g].inputs) THEN 0
    ELSE hist[promoter_of(lc, gates_vec, selected_genes, inputs, lc.gates[g].inputs[j])][t]
         + drive(hist, g, t, j + 1)

\* C25: GeneticCircuit::simulate and simulator.rs append exactly one entry per
\* gene per step, and the entry of step t is old + transfer(x) - decay * old,
\* where old is the gene's entry of step t - 1 (0 before step 0) and x is the
\* sum of what its input promoters hold in step t: the value recorded for an
\* input after the testbench entry of step t was applied, and for a driving
\* gene, which comes earlier in the order, its entry of the same step t.
C25_StepOrder ==
    (pc = "simulated" /\ rev \in {"genetic_circuit", "simulator"} /\ PromotersDistinct) =>
        LET hist == simulation.value.history
        IN \A g \in DOMAIN lc.gates :
              LET h == hist[gene_of(g).promoter]
              IN /\ Len(h) = SimSteps
                 /\ \A t \in 1..SimSteps :
                       LET old == IF t = 1 THEN 0 ELSE h[t - 1]
                       IN h[t] = old + Gene_transfer(gene_of(g).params, drive(hist, g, t, 1))
                                     - (gene_of(g).params.decay * old) \div Unit

\* A gene driven by another gene was simulated while the testbench switched an
\* input, with a decay other than 1 in the circuit.
C25_Witness ==
    /\ pc = "simulated"
    /\ rev \in {"genetic_circuit", "simulator"}
    /\ PromotersDistinct
    /\ \E g \in DOMAIN lc.gates : g \notin first_gates
    /\ \E g \in DOMAIN lc.gates : gene_of(g).params.decay # Unit
    /\ \E n \in DOMAIN inputs : switches(n) # {}

---------------------------------------------------------------------------
(* The front end: LogicCircuitBuilder (src/logic_circuit/builder.rs) *)

MaxOps == 2

\* Operation::Logic: symbol, var, args
Op(symbol, var, args) == [symbol |-> symbol, var |-> var, args |-> args]

BuildNames == {"a", "x", "out"}

\* The operations of an implementation body: `var = symbol(args)` with one or
\* two arguments for not and nor, and one operation of an unknown symbol.
BuildOps ==
    { Op("not", v, <<p>>) : v \in BuildNames, p \in BuildNames } \cup
    { Op("not", v, <<"a", "a">>) : v \in BuildNames } \cup
    { Op("nor", v, <<p, q>>) : v \in BuildNames, p, q \in BuildNames } \cup
    { Op("nor", v, <<"a">>) : v \in BuildNames } \cup
    { Op("and", "out", <<"a", "a">>) }

BuildBodies == UNION { [1..n -> BuildOps] : n \in 0..MaxOps }

\* mod_tree.get("main"): the module's ins and outs, when it was declared.
BuildModules ==
    { [declared |-> TRUE, ins |-> <<"a">>, outs |-> <<"out">>],
      [declared |-> TRUE, ins |-> <<"a">>, outs |-> <<"out", "x">>],
      [declared |-> FALSE, ins |-> <<>>, outs |-> <<>>] }

\* Every argument counts as known.
known_any(name, vmap, pmap) == TRUE

\* vmap.contains(&arg.value) || pmap.contains(&arg.value)
known(name, vmap, pmap) == name \in vmap \/ name \in pmap

\* LogicCircuitBuilder::get_gate_kind
get_gate_kind(symbol) ==
    IF symbol = "not" THEN [ok |-> TRUE, kind |-> "NOT"]
    ELSE IF symbol = "nor" THEN [ok |-> TRUE, kind |-> "NOR"]
    ELSE [ok |-> FALSE, kind |-> "UnexpectedToken"]

\* for arg in &lop.args: the first argument that is not known, if any.
args_known(args, vmap, pmap) == \A j \in DOMAIN args : known(args[j], vmap, pmap)

\* The body of `for op in &imp.body` for one operation, on
\* st = [err, pmap, rmap, vmap, vunused]; err is "none" until a check fails.
check_op(op, st) ==
    LET kind == get_gate_kind(op.symbol)
    IN IF ~kind.ok THEN [st EXCEPT !.err = "UnexpectedToken"]
       ELSE IF (kind.kind = "NOT" /\ Len(op.args) # 1) \/ (kind.kind = "NOR" /\ Len(op.args) # 2)
       THEN [st EXCEPT !.err = "InvalidNumberOfArgs"]
       ELSE IF op.var \in st.vmap \/ op.var \in st.pmap
       THEN [st EXCEPT !.err = "AlreadyExists"]
       ELSE IF ~args_known(op.args, st.vmap, st.pmap)
       THEN [st EXCEPT !.err = "NotFound"]
       ELSE [err |-> "none",
             pmap |-> st.pmap,
             rmap |-> st.rmap \ {op.var},
             vmap |-> st.vmap \cup {op.var},
             vunused |-> (st.vunused \ {op.args[j] : j \in DOMAIN op.args}) \cup {op.var}]

RECURSIVE check_body(_, _, _)
check_body(body, j, st) ==
    IF j > Len(body) \/ st.err # "none" THEN st
    ELSE check_body(body, j + 1, check_op(body[j], st))

\* LogicCircuitBuilder::check_implementation_errors on an empty impl_tree:
\* "none" for Ok(()), the kind of the error otherwise.
check_implementation_errors(im) ==
    IF ~im.module.declared THEN "NotFound"
    ELSE IF Len(im.body) > im.genes_len THEN "NotEnoughGenes"
    ELSE IF Len(im.module.outs) # 1 THEN "InvalidNumberOfArgs"
    ELSE LET st == check_body(im.body, 1,
                              [err |-> "none",
                               pmap |-> {im.module.ins[j] : j \in DOMAIN im.module.ins},
                               rmap |-> {im.module.outs[j] : j \in DOMAIN im.module.outs},
                               vmap |-> {}, vunused |-> {}])
         IN IF st.err # "none" THEN st.err
            ELSE IF st.vunused \ {im.module.outs[j] : j \in DOMAIN im.module.outs} # {}
            THEN "NotUsed"
            ELSE "none"

\* LogicCircuitBuilder::build_devices: one Device::Gate per operation, in body order.
build_devices(im) ==
    [j \in DOMAIN im.body |->
        [output |-> im.body[j].var,
         kind |-> get_gate_kind(im.body[j].symbol).kind,
         inputs |-> im.body[j].args]]

\* build_parse_tree on the implementation, then build_logic_circut: the devices
\* are built only from an implementation that was inserted into impl_tree.
BuildLogicCircuit ==
    /\ pc = "build"
    /\ \E err \in {check_implementation_errors(imp)} :
          build' = IF err = "none"
                   THEN [ok |-> TRUE, kind |-> "none", devices |-> build_devices(imp)]
                   ELSE [ok |-> FALSE, kind |-> err, devices |-> <<>>]
    /\ pc' = "built"
    /\ UNCHANGED <<gates_vec, inputs, lc, result, imp>>
    /\ UNCHANGED <<searchvars, evalvars, simvars, concvars, choosevars, asmvars, assignvars>>

InitBuild ==
    /\ gates_vec = <<>>
    /\ inputs = InputCatalog
    /\ lc = NoCircuit
    /\ pc = "build"
    /\ imp \in { [module |-> m, body |-> b, genes_len |-> n] :
                    m \in BuildModules, b \in BuildBodies, n \in {1, MaxOps} }
    /\ build = None
    /\ SearchIdle /\ EvalIdle /\ SimIdle /\ ConcIdle /\ ChooseIdle /\ AsmIdle /\ AssignIdle

NextBuild == BuildLogicCircuit

SpecBuild == InitBuild /\ [][NextBuild]_vars

\* The names of the circuit's inputs, as the module declares them.
build_inputs == {imp.module.ins[j] : j \in DOMAIN imp.module.ins}

\* C26: a circuit the builder accepts has fixed arity (NOT one input, NOR
\* two), every gate input names a circuit input or the output of a gate
\* earlier in the device list (so the list is in topological order and the
\* circuit is acyclic), and no name is assigned twice or assigned over a circuit
\* input; an implementation that breaks one of these is rejected with an
\* error and no device is built.
C26_WellFormed ==
    pc = "built" =>
        LET wf(devs) ==
                /\ \A j \in DOMAIN devs :
                      /\ devs[j].kind \in {"NOT", "NOR"}
                      /\ devs[j].kind = "NOT" => Len(devs[j].inputs) = 1
                      /\ devs[j].kind = "NOR" => Len(devs[j].inputs) = 2
                      /\ devs[j].output \notin build_inputs
                      /\ \A p \in DOMAIN devs[j].inputs :
                            \/ devs[j].inputs[p] \in build_inputs
                            \/ \E e \in 1..(j - 1) : devs[e].output = devs[j].inputs[p]
                /\ \A j, e \in DOMAIN devs : j # e => devs[j].output # devs[e].output
        IN /\ build.ok => wf(build.devices) /\ build.devices = build_devices(imp)
           /\ ~build.ok => build.devices = <<>> /\ build.kind # "none"
           /\ (imp.module.declared /\ ~wf(build_devices(imp))) => ~build.ok

\* An accepted circuit of two gates, the second reading the first.
C26_Witness ==
    /\ pc = "built"
    /\ build.ok
    /\ Len(build.devices) = 2
    /\ \E p \in DOMAIN build.devices[2].inputs :
           build.devices[2].inputs[p] = build.devices[1].output

---------------------------------------------------------------------------
(* Assembler::assemble on what the search returned (api/_utils/assembler.rs, api/compile.rs) *)

\* Assembler::walk_assemble on st = [added, genes, id, panic]; the promoter it
\* returns is st.pro. An unwrap of None ends the walk with panic set.
RECURSIVE walk_assemble(_, _, _, _, _, _)
RECURSIVE walk_assemble_inputs(_, _, _, _, _, _, _, _)
walk_assemble(lib, sigs, curr_gate, circ, assigned, st) ==
    IF st.panic THEN st
    ELSE IF curr_gate \in DOMAIN sigs
    THEN [st EXCEPT !.pro = sigs[curr_gate].promoter]
    ELSE IF curr_gate \in st.added
    THEN IF curr_gate \notin DOMAIN assigned \/ assigned[curr_gate] >= Len(lib)
         THEN [st EXCEPT !.panic = TRUE]
         ELSE [st EXCEPT !.pro = lib[assigned[curr_gate] + 1].promoter]
    ELSE IF curr_gate \notin DOMAIN circ.gates
    THEN [st EXCEPT !.panic = TRUE]
    ELSE walk_assemble_inputs(lib, sigs, curr_gate, circ, assigned,
                              circ.gates[curr_gate].inputs, 1,
                              [st EXCEPT !.added = @ \cup {curr_gate}, !.ins = <<>>])

\* for inp in &gate.inputs { inputs.push(walk_assemble(inp, ...)) }, then the push
\* of the gene of curr_gate. st.ins collects the promoters of the inputs.
walk_assemble_inputs(lib, sigs, curr_gate, circ, assigned, inps, j, st) ==
    IF st.panic THEN st
    ELSE IF j <= Len(inps)
    THEN LET got == walk_assemble(lib, sigs, inps[j], circ, assigned, st)
         IN walk_assemble_inputs(lib, sigs, curr_gate, circ, assigned, inps, j + 1,
                                 [got EXCEPT !.ins = Append(st.ins, got.pro)])
    ELSE IF curr_gate \notin DOMAIN assigned \/ assigned[curr_gate] >= Len(lib)
    THEN [st EXCEPT !.panic = TRUE]
    ELSE LET bio_gate == lib[assigned[curr_gate] + 1]
         IN [st EXCEPT !.id = @ + 1,
                       !.genes = Append(@, [inputs |-> st.ins, id |-> st.id + 1,
                                            promoter |-> bio_gate.promoter,
                                            name |-> bio_gate.name]),
                       !.pro = bio_gate.promoter]

\* Assembler::assemble: the GeneticCircuit, or a panic.
assemble(lib, sigs, circ, assigned) ==
    LET st == walk_assemble(lib, sigs, circ.output, circ, assigned,
                            [added |-> {}, genes |-> <<>>, id |-> 0, panic |-> FALSE,
                             pro |-> "", ins |-> <<>>])
    IN IF st.panic THEN [ok |-> FALSE]
       ELSE [ok |-> TRUE,
             output |-> [name |-> circ.output, inputs |-> <<st.pro>>],
             inputs |-> [j \in DOMAIN circ.inputs |-> sigs[circ.inputs[j]]],
             genes |-> st.genes]

\* compile after assign returned Ok: let mut gc = ass.assemble(&lc, &ass_gates)
Assemble ==
    /\ pc = "done"
    /\ result.ok
    /\ assigned_gates' = result.assignment
    /\ \E gc \in {assemble(gates_vec, inputs, lc, result.assignment)} :
          /\ genetic_circuit' = IF gc.ok THEN Some(gc) ELSE None
          /\ pc' = IF gc.ok THEN "assembled" ELSE "panic"
    /\ UNCHANGED <<gates_vec, inputs, lc, result>>
    /\ UNCHANGED <<searchvars, evalvars, simvars, concvars, choosevars, buildvars, assignvars>>

NextAssemble == SearchStart \/ SearchIterate \/ SearchReturn \/ Assemble

SpecAssemble == Init /\ [][NextAssemble]_vars

\* C29: after compile has called assemble on the assignment assign returned,
\* there is a GeneticCircuit with exactly one gene for each gate of the circuit
\* (each is reachable from the output), a gate that feeds several gates
\* included; the genes are those assigned to the gates; every input promoter of
\* a gene is the promoter of a circuit input or of a gene earlier in the list;
\* and the only input promoter of the output is the promoter of the gene
\* assigned to the output node.
C29_Assembled ==
    pc \in {"assembled", "panic"} =>
        /\ pc = "assembled"
        /\ genetic_circuit.some
        /\ LET gc == genetic_circuit.value
           IN /\ Len(gc.genes) = Cardinality(DOMAIN lc.gates)
              /\ \A g \in DOMAIN lc.gates :
                    Cardinality({j \in DOMAIN gc.genes :
                                    gc.genes[j].name = gates_vec[assigned_gates[g] + 1].name}) >=
                    1
              /\ \A j \in DOMAIN gc.genes : \A p \in DOMAIN gc.genes[j].inputs :
                    \/ \E n \in DOMAIN gc.inputs : gc.inputs[n].promoter = gc.genes[j].inputs[p]
                    \/ \E e \in 1..(j - 1) : gc.genes[e].promoter = gc.genes[j].inputs[p]
              /\ gc.output.inputs = <<gates_vec[assigned_gates[lc.output] + 1].promoter>>
              /\ gc.genes[Len(gc.genes)].name = gates_vec[assigned_gates[lc.output] + 1].name

---------------------------------------------------------------------------
(* The KD-tree assigner: api/_utils/kd_tree.rs and api/_utils/assigner.rs *)

\* Node::Leaf(LeafNode) of the tree file: the key is the gene's name.
Leaf(point) == [leaf |-> TRUE, point |-> point, div |-> 0, less |-> "", more |-> ""]

\* Node::Internal(InternalNode)
Internal(div, less, more) ==
    [leaf |-> FALSE, point |-> <<>>, div |-> div, less |-> less, more |-> more]

\* The third coordinate of every query, 1000.0, and of every leaf.
KdThird == 1000 * Unit

\* The genes of gates.json by name, with the group the name carries after "_".
AssignGenes ==
    [P1_PhlF |-> [group |-> "PhlF", promoter |-> "pPhlF",
                  params |-> [ymax |-> 3900, ymin |-> 20, k |-> 130, n |-> 2]],
     P2_PhlF |-> [group |-> "PhlF", promoter |-> "pPhlF",
                  params |-> [ymax |-> 4100, ymin |-> 20, k |-> 230, n |-> 2]],
     S1_SrpR |-> [group |-> "SrpR", promoter |-> "pSrpR",
                  params |-> [ymax |-> 1300, ymin |-> 3, k |-> 60, n |-> 2]]]

\* tree.json for four libraries: one leaf; two leaves under one split of axis
\* 0; three leaves under a split of axis 0 and one of axis 1.
KdTrees ==
    { [k |-> 3, root |-> "S1_SrpR",
       tree |-> ("S1_SrpR" :> Leaf(<<20, 2000, KdThird>>))],
      [k |-> 3, root |-> "P1_PhlF",
       tree |-> ("P1_PhlF" :> Leaf(<<50, 5000, KdThird>>))],
      [k |-> 3, root |-> "n0",
       tree |-> ("n0" :> Internal(35, "S1_SrpR", "P1_PhlF")) @@
                ("S1_SrpR" :> Leaf(<<20, 2000, KdThird>>)) @@
                ("P1_PhlF" :> Leaf(<<50, 5000, KdThird>>))],
      [k |-> 3, root |-> "n0",
       tree |-> ("n0" :> Internal(35, "S1_SrpR", "n1")) @@
                ("n1" :> Internal(7000, "P1_PhlF", "P2_PhlF")) @@
                ("S1_SrpR" :> Leaf(<<20, 2000, KdThird>>)) @@
                ("P1_PhlF" :> Leaf(<<50, 5000, KdThird>>)) @@
                ("P2_PhlF" :> Leaf(<<50, 9000, KdThird>>))] }

\* The input files: the catalog, and two whose input a has a smaller fold-change.
AssignInputs ==
    { InputCatalog,
      [InputCatalog EXCEPT !["a"] = [name |-> "a", promoter |-> "pTac",
                                     rpu_off |-> 50, rpu_on |-> 2000]],
      [InputCatalog EXCEPT !["a"] = [name |-> "a", promoter |-> "pTac",
                                     rpu_off |-> 100, rpu_on |-> 1000]] }

AssignCircuits == { c \in Circuits : Cardinality(DOMAIN c.gates) <= 2 }

\* LeafNode::dist, squared: the comparisons of the walk keep their order.
dist2(p, q) ==
    (q[1] - p[1]) * (q[1] - p[1]) + (q[2] - p[2]) * (q[2] - p[2])
    + (q[3] - p[3]) * (q[3] - p[3])

\* get_closer on leaf keys; "" is None.
get_closer(t, first, second, point) ==
    IF first = "" THEN second
    ELSE IF second = "" THEN first
    ELSE IF dist2(t.tree[first].point, point) < dist2(t.tree[second].point, point)
    THEN first ELSE second

\* get_sides
get_sides(in_node, point, axis) ==
    IF point[axis + 1] < in_node.div THEN <<in_node.less, in_node.more>>
    ELSE <<in_node.more, in_node.less>>

\* KdTree::should_check_bad_side
should_check_bad_side(t, closest, point, div, axis) ==
    IF closest = "" THEN TRUE
    ELSE (point[axis + 1] - div) * (point[axis + 1] - div) < dist2(point, t.tree[closest].point)

\* KdTree::walk: the key of the closest leaf that is not blacklisted by group
\* or by name, "" when there is none.
RECURSIVE kd_walk(_, _, _, _, _)
kd_walk(t, blacklist, point, curr, depth) ==
    LET node == t.tree[curr]
    IN IF node.leaf
       THEN IF AssignGenes[curr].group \notin blacklist /\ curr \notin blacklist
            THEN curr ELSE ""
       ELSE LET axis == depth % t.k
                sides == get_sides(node, point, axis)
                closest == kd_walk(t, blacklist, point, sides[1], depth + 1)
            IN IF should_check_bad_side(t, closest, point, node.div, axis)
               THEN get_closer(t, closest,
                               kd_walk(t, blacklist, point, sides[2], depth + 1), point)
               ELSE closest

\* KdTree::search
kd_search(t, point, blacklist) ==
    IF t.root = "" THEN "" ELSE kd_walk(t, blacklist, point, t.root, 0)

\* f64::min and f64::max: a NaN operand is ignored.
f64_min(a, b) == IF a = NaN THEN b ELSE IF b = NaN THEN a ELSE Min(a, b)

f64_max(a, b) == IF a = NaN THEN b ELSE IF b = NaN THEN a ELSE Max(a, b)

\* Assigner::get_on_off: <<name, new_on, new_off, new_on / new_off>>
get_on_off(on, off, node) ==
    IF node = "" THEN <<"0_0", 0, 0, 0>>
    ELSE LET new_on == transfer(on, AssignGenes[node].params)
             new_off == transfer(off, AssignGenes[node].params)
         IN <<node, new_on, new_off, FDiv(new_on, new_off)>>

\* in_rpus.rpu_on / in_rpus.rpu_off
input_min(sig) == FDiv(sig.rpu_on, sig.rpu_off)

\* Assigner::walk_back on st = [gate_bl, assigned]. The result holds ok, the
\* tuple (first, second, min, name, promoter, bl) and the two maps as left.
RECURSIVE walk_back(_, _, _, _, _, _, _)
RECURSIVE walk_back_inputs(_, _, _, _, _, _, _, _)
walk_back(t, sigs, curr_gate, gates, ext_bl, st, threshold) ==
    LET gate_bl == IF curr_gate \in DOMAIN st.gate_bl THEN st.gate_bl
                   ELSE insert(st.gate_bl, curr_gate, {})
        st1 == [st EXCEPT !.gate_bl = gate_bl]
    IN IF curr_gate \in DOMAIN sigs
       THEN [ok |-> TRUE, first |-> sigs[curr_gate].rpu_off, second |-> sigs[curr_gate].rpu_on,
             min |-> input_min(sigs[curr_gate]), name |-> "0_0",
             promoter |-> sigs[curr_gate].promoter, bl |-> {}, st |-> st1]
       ELSE LET acc == walk_back_inputs(t, sigs, gates[curr_gate].inputs, 1, gates, threshold,
                                        [ok |-> TRUE, res_bl |-> ext_bl, new_on |-> 0,
                                         new_off |-> Inf, new_min |-> Inf, names |-> <<>>,
                                         promoters |-> <<>>, st |-> st1],
                                        curr_gate)
            IN IF ~acc.ok
               THEN [ok |-> FALSE, first |-> 0, second |-> 0, min |-> 0, name |-> "0_0",
                     promoter |-> "", bl |-> {}, st |-> acc.st]
               ELSE LET gbl == acc.st.gate_bl[curr_gate] \cup acc.res_bl
                        node == kd_search(t, <<acc.new_on, acc.new_off, KdThird>>, gbl)
                        got == get_on_off(acc.new_on, acc.new_off, node)
                    IN IF FLe(got[4], threshold)
                       THEN IF gates[curr_gate].inputs[1] \in DOMAIN sigs
                            THEN [ok |-> FALSE, first |-> 0, second |-> 0, min |-> 0,
                                  name |-> "0_0", promoter |-> "", bl |-> {}, st |-> acc.st]
                            ELSE walk_back(t, sigs, curr_gate, gates, ext_bl,
                                           [acc.st EXCEPT
                                               !.gate_bl[gates[curr_gate].inputs[1]] =
                                                   @ \cup {acc.names[1]}],
                                           threshold)
                       ELSE [ok |-> TRUE, first |-> got[3], second |-> got[2],
                             min |-> f64_min(acc.new_min, got[4]), name |-> got[1],
                             promoter |-> AssignGenes[got[1]].promoter,
                             bl |-> acc.res_bl \cup {AssignGenes[got[1]].group},
                             st |-> [acc.st EXCEPT
                                        !.assigned = insert(@, curr_gate,
                                                            [name |-> got[1],
                                                             inputs |-> acc.promoters])]]

\* for inp in &gate.inputs: the children in turn, `?` on the first error.
walk_back_inputs(t, sigs, inps, j, gates, threshold, acc, curr_gate) ==
    IF j > Len(inps) \/ ~acc.ok THEN acc
    ELSE LET r == walk_back(t, sigs, inps[j], gates, acc.res_bl, acc.st, threshold)
         IN walk_back_inputs(t, sigs, inps, j + 1, gates, threshold,
                             IF ~r.ok THEN [acc EXCEPT !.ok = FALSE, !.st = r.st]
                             ELSE [ok |-> TRUE,
                                   res_bl |-> acc.res_bl \cup r.bl,
                                   new_on |-> f64_max(r.first, acc.new_on),
                                   new_off |-> f64_min(r.second, acc.new_off),
                                   new_min |-> f64_min(r.min, acc.new_min),
                                   names |-> Append(acc.names, r.name),
                                   promoters |-> Append(acc.promoters, r.promoter),
                                   st |-> r.st],
                             curr_gate)

\* Err(assign_err("Failed to find optimal genetic circuit!", (0, 0)))
assign_failed == [ok |-> FALSE, kind |-> "AssignError"]

\* Ok((promoter, assigned_gates))
assign_ok(w) == [ok |-> TRUE, promoter |-> w.promoter, assignment |-> w.assigned]

\* One call of Assigner::try_walk. A failing walk_back ends the recursion: the
\* first call returns its error, a later one makes every caller return the
\* assignment of the call before it. A success recurses with new_min; when
\* new_min is the threshold the call had, the next call repeats this one
\* argument for argument, and the recursion has no end but the stack's.
TryWalk ==
    /\ pc = "try"
    /\ \E w \in {walk_back(kd, inputs, lc.output, lc.gates, {},
                           [gate_bl |-> EmptyMap, assigned |-> EmptyMap], min)} :
          IF ~w.ok
          THEN /\ result' = IF tries = 0 THEN assign_failed ELSE assign_ok(walked.value)
               /\ pc' = "done"
               /\ UNCHANGED <<min, tries, walked>>
          ELSE /\ walked' = Some([promoter |-> w.promoter, assigned |-> w.st.assigned,
                                  min |-> w.min, threshold |-> min])
               /\ min' = w.min
               /\ tries' = tries + 1
               /\ pc' = IF w.min = min THEN "overflow" ELSE "try"
               /\ UNCHANGED result
    /\ UNCHANGED <<gates_vec, inputs, lc, kd>>
    /\ UNCHANGED <<layers, i, best_score, best_ass, selected_gates, score, evals, draws,
                   fallbacks, scores, bls>>
    /\ UNCHANGED <<evalvars, simvars, concvars, choosevars, buildvars, asmvars>>

\* assign_gates has checked the output and the inputs: self.try_walk(&lc, 1.0)
InitAssign ==
    /\ gates_vec = <<>>
    /\ inputs \in AssignInputs
    /\ lc \in AssignCircuits
    /\ pc = "try"
    /\ kd \in KdTrees
    /\ min = Unit
    /\ tries = 0
    /\ walked = None
    /\ SearchIdle /\ EvalIdle /\ SimIdle /\ ConcIdle /\ ChooseIdle /\ BuildIdle /\ AsmIdle

NextAssign == TryWalk

SpecAssign == InitAssign /\ [][NextAssign]_vars

\* C30: try_walk terminates: every successful attempt has a minimum fold-change
\* strictly above the threshold it ran under, so the thresholds of successive
\* attempts strictly increase and the recursion never repeats a call; it
\* returns the error of the first walk_back when that fails, and otherwise the
\* assignment of the last successful attempt.
C30_Terminates ==
    /\ [](pc # "overflow")
    /\ [](walked.some => walked.value.min > walked.value.threshold)
    /\ [][pc' = "try" => min' > min]_vars
    /\ [](pc = "done" =>
             IF tries = 0 THEN result = assign_failed ELSE result = assign_ok(walked.value))

====
